---- MODULE Spec2Model ----
(***************************************************************************)
(* A model of the index-and-map core of pancake: the seed index            *)
(* (src/src/overlaphifi/SeedIndex.cpp), the mapper                         *)
(* (src/src/overlaphifi/Mapper.cpp), the SeedDB index cache                *)
(* (src/src/seeddb/SeedDBIndexCache.cpp) and the writer of the sequence    *)
(* database (src/src/seqdb/SeqDBWriterCompressed.cpp).                     *)
(*                                                                         *)
(* C++ vectors are sequences; a C++ index i (from 0) is the sequence index *)
(* i + 1.  Every subsystem has a specification of its own (SpecIndex,      *)
(* SpecMapper, SpecFilter, SpecAlign, SpecCache); the variables of the     *)
(* other subsystems keep their initial value in it.                        *)
(***************************************************************************)
EXTENDS Integers, Sequences, FiniteSets, TLC

VARIABLES
    seeds_,        \* SeedIndex::seeds_, the owned seed array
    hash_,         \* SeedIndex::hash_, key -> <<start, end>>
    seedDBCache_,  \* the shared SeedDBIndexCache
    indexFile,     \* the text of the index file: its lines
    call,          \* the last call made on the subsystem: [op, ...arguments, ...results]
    querySeq,      \* the query of the mapper: [Id, len]
    hits,          \* the mapper's list of seed hits
    targetSeqs,    \* the target sequences given to the mapper: id -> bases
    overlaps,      \* the mapper's list of overlaps
    map,           \* Mapper::Map in progress: its position and the calls it made
    writer         \* the SeqDBWriterCompressed and the sequence files it writes

vars == <<seeds_, hash_, seedDBCache_, indexFile, call, querySeq, targetSeqs, hits, overlaps, map, writer>>

indexVars == <<seeds_, hash_, seedDBCache_, indexFile>>

mapperVars == <<querySeq, targetSeqs, hits, overlaps, map>>

NoCall == [op |-> "none"]

NoWriter == [pc |-> "none"]

NoFile == <<>>

(***************************************************************************)
(* Generic helpers.                                                        *)
(***************************************************************************)
Range(s) == {s[i] : i \in 1..Len(s)}

SeqsUpTo(S, n) == UNION {[1..m -> S] : m \in 0..n}

Max(a, b) == IF a > b THEN a ELSE b

Min(a, b) == IF a < b THEN a ELSE b

Abs(a) == IF a < 0 THEN -a ELSE a

\* Lexicographic "less than" on two tuples of integers of the same length:
\* the unsigned order of a word whose bit fields, most significant first,
\* are the tuple's elements.
RECURSIVE LexLess(_, _)
LexLess(a, b) ==
    IF Len(a) = 0 THEN FALSE
    ELSE IF a[1] # b[1] THEN a[1] < b[1]
    ELSE LexLess(Tail(a), Tail(b))

(***************************************************************************)
(* The packed seed (pacbio/seeddb/Seed.h).  A raw seed is the tuple of its *)
(* bit fields, most significant first: <<key, seqID, pos, strand>>.        *)
(***************************************************************************)
Encode(key, seqID, pos, isRev) == <<key, seqID, pos, IF isRev THEN 1 ELSE 0>>

DecodeKey(raw) == raw[1]

Seed(raw) == [key |-> raw[1], seqID |-> raw[2], pos |-> raw[3], rev |-> raw[4] = 1]

\* kx::radix_sort of the seed array: ascending order of the packed word.
RECURSIVE InsertSorted(_, _)
InsertSorted(x, s) ==
    IF Len(s) = 0 THEN <<x>>
    ELSE IF LexLess(x, s[1]) THEN <<x>> \o s
    ELSE <<s[1]>> \o InsertSorted(x, Tail(s))

RECURSIVE radix_sort(_)
radix_sort(s) ==
    IF Len(s) = 0 THEN <<>>
    ELSE CHOOSE r \in {InsertSorted(s[1], rest) : rest \in {radix_sort(Tail(s))}} : TRUE

(***************************************************************************)
(* SeedDBIndexCache accessors.                                             *)
(***************************************************************************)
\* GetSeedsLine: throws for an ordinal outside the table.
GetSeedsLineThrows(cache, seqId) == seqId < 0 \/ seqId >= Len(cache.seedLines)

GetSeedsLine(cache, seqId) == cache.seedLines[seqId + 1]

\* A test of GetBlockLine that refuses the first block too.
GetBlockLineThrowsAtZero(cache, blockId) == blockId <= 0 \/ blockId >= Len(cache.blockLines)

\* GetBlockLine: throws for an ordinal outside the table.
GetBlockLineThrows(cache, blockId) == blockId < 0 \/ blockId >= Len(cache.blockLines)

GetBlockLine(cache, blockId) == cache.blockLines[blockId + 1]

\* GetFileLine: throws for an ordinal outside the table.
GetFileLineThrows(cache, fileId) == fileId < 0 \/ fileId >= Len(cache.fileLines)

GetFileLine(cache, fileId) == cache.fileLines[fileId + 1]

(***************************************************************************)
(* Text.  A string is a sequence of atoms: a whitespace character, a       *)
(* digit, a sign, ",", "=", or a word (a run of other characters, taken    *)
(* whole).  A text is the sequence of its lines, each without its "\n".    *)
(***************************************************************************)
Whitespace == {" ", "\t", "\n"}

DigitAtoms == <<"0", "1", "2", "3", "4", "5", "6", "7", "8", "9">>

IsDigit(c) == \E d \in 1..Len(DigitAtoms) : DigitAtoms[d] = c

DigitValue(c) == (CHOOSE d \in 1..Len(DigitAtoms) : DigitAtoms[d] = c) - 1

\* operator<< of a non-negative integer.
RECURSIVE DecimalOfNat(_)
DecimalOfNat(n) ==
    IF n < Len(DigitAtoms) THEN <<DigitAtoms[n + 1]>>
    ELSE DecimalOfNat(n \div Len(DigitAtoms)) \o <<DigitAtoms[(n % Len(DigitAtoms)) + 1]>>

\* operator<< of an integer.
DecimalOf(n) == IF n < 0 THEN <<"-">> \o DecimalOfNat(-n) ELSE DecimalOfNat(n)

\* The first position from i on that holds no whitespace (Len(s) + 1 if none).
RECURSIVE SkipWhitespace(_, _)
SkipWhitespace(s, i) ==
    IF i <= Len(s) /\ s[i] \in Whitespace THEN SkipWhitespace(s, i + 1) ELSE i

\* The first position from i on that holds no digit.
RECURSIVE DigitsEnd(_, _)
DigitsEnd(s, i) == IF i <= Len(s) /\ IsDigit(s[i]) THEN DigitsEnd(s, i + 1) ELSE i

\* The first position from i on that holds whitespace.
RECURSIVE WordEnd(_, _)
WordEnd(s, i) == IF i <= Len(s) /\ s[i] \notin Whitespace THEN WordEnd(s, i + 1) ELSE i

\* The value of the digits s[i] .. s[j - 1].
RECURSIVE DecimalValue(_, _, _)
DecimalValue(s, i, j) ==
    IF j <= i THEN 0 ELSE Len(DigitAtoms) * DecimalValue(s, i, j - 1) + DigitValue(s[j - 1])

\* An integer read at position b, where no whitespace stands: an optional
\* sign and a run of digits.  next is the position after what was read.
IntAt(s, b) ==
    CHOOSE r \in
        {IF e = d THEN [ok |-> FALSE, val |-> 0, next |-> d]
         ELSE [ok |-> TRUE,
               val |-> IF d > b /\ s[b] = "-" THEN -DecimalValue(s, d, e)
                       ELSE DecimalValue(s, d, e),
               next |-> e] :
            d \in {IF b <= Len(s) /\ s[b] \in {"-", "+"} THEN b + 1 ELSE b},
            e \in {DigitsEnd(s, IF b <= Len(s) /\ s[b] \in {"-", "+"} THEN b + 1 ELSE b)}} : TRUE

\* The conversions %d and %lld of sscanf, after the whitespace they skip.
ScanInt(s, i) == IntAt(s, SkipWhitespace(s, i))

\* The conversion %s of sscanf: the run up to the next whitespace.
ScanStr(s, i) ==
    CHOOSE r \in
        {IF b > Len(s) THEN [ok |-> FALSE, val |-> <<>>, next |-> b]
         ELSE [ok |-> TRUE, val |-> SubSeq(s, b, WordEnd(s, b) - 1), next |-> WordEnd(s, b)] :
            b \in {SkipWhitespace(s, i)}} : TRUE

\* sscanf from position i with the conversions fmt ("d" or "s"): the values
\* assigned, which are as many as sscanf returns.
RECURSIVE sscanf(_, _, _)
sscanf(s, i, fmt) ==
    IF Len(fmt) = 0 THEN <<>>
    ELSE CHOOSE out \in
             {IF ~r.ok THEN <<>> ELSE <<r.val>> \o sscanf(s, r.next, Tail(fmt)) :
                 r \in {IF Head(fmt) = "s" THEN ScanStr(s, i) ELSE ScanInt(s, i)}} : TRUE

\* std::stoi: throws when no digit follows the leading whitespace and sign.
stoi(s) == ScanInt(s, 1)

\* One extraction of an input stream in the state st = [pos, fail] into a
\* variable that holds old.  A stream that has failed, or that ends after the
\* whitespace, leaves the variable alone; an integer that cannot be read is 0.
Extract(s, st, conversion, old) ==
    CHOOSE r \in
        {IF st.fail \/ b > Len(s) THEN [val |-> old, st |-> [pos |-> b, fail |-> TRUE]]
         ELSE IF conversion = "c" THEN [val |-> s[b], st |-> [pos |-> b + 1, fail |-> FALSE]]
         ELSE IF conversion = "s"
         THEN [val |-> ScanStr(s, b).val, st |-> [pos |-> ScanStr(s, b).next, fail |-> FALSE]]
         ELSE [val |-> IntAt(s, b).val,
               st |-> [pos |-> IntAt(s, b).next, fail |-> ~IntAt(s, b).ok]] :
            b \in {IF st.fail THEN st.pos ELSE SkipWhitespace(s, st.pos)}} : TRUE

\* The chain "iss >> a >> b >> ..." with the conversions fmt into variables
\* that hold olds: the values they hold after it.
RECURSIVE ExtractAll(_, _, _, _)
ExtractAll(s, st, fmt, olds) ==
    IF Len(fmt) = 0 THEN <<>>
    ELSE CHOOSE out \in
             {<<r.val>> \o ExtractAll(s, r.st, Tail(fmt), Tail(olds)) :
                 r \in {Extract(s, st, Head(fmt), Head(olds))}} : TRUE

\* The position of the first delim from i on (Len(s) + 1 if none).
RECURSIVE NextDelim(_, _, _)
NextDelim(s, i, delim) ==
    IF i <= Len(s) /\ s[i] # delim THEN NextDelim(s, i + 1, delim) ELSE i

\* PacBio::Utility::Split from position i on: the pieces std::getline reads
\* (no piece after a closing delim).
RECURSIVE SplitFrom(_, _, _)
SplitFrom(s, i, delim) ==
    IF i > Len(s) THEN <<>>
    ELSE CHOOSE out \in
             {<<SubSeq(s, i, j - 1)>> \o SplitFrom(s, j + 1, delim) :
                 j \in {NextDelim(s, i, delim)}} : TRUE

Split(s, delim) == SplitFrom(s, 1, delim)

(***************************************************************************)
(* ParseSeedDBParams and the two loaders of the index cache.               *)
(***************************************************************************)
DefaultKmerSize == 30

DefaultMinimizerWindow == 80

DefaultMaxHPCLen == 10

\* A default-constructed SeedDBParameters.
DefaultSeedDBParameters ==
    [KmerSize |-> DefaultKmerSize, MinimizerWindow |-> DefaultMinimizerWindow, UseHPC |-> 0,
     MaxHPCLen |-> DefaultMaxHPCLen, UseRC |-> 1]

\* The chain of comparisons of the name of a parameter.
SetParam(ret, name, value) ==
    IF name = <<"k">> THEN [ret EXCEPT !.KmerSize = value]
    ELSE IF name = <<"w">> THEN [ret EXCEPT !.MinimizerWindow = value]
    ELSE IF name = <<"hpc">> THEN [ret EXCEPT !.UseHPC = value]
    ELSE IF name = <<"hpc_len">> THEN [ret EXCEPT !.MaxHPCLen = value]
    ELSE IF name = <<"rc">> THEN [ret EXCEPT !.UseRC = value]
    ELSE ret

KnownParams == {<<"k">>, <<"w">>, <<"hpc">>, <<"hpc_len">>, <<"rc">>}

\* The body of the loop of ParseSeedDBParams for one parameter.
ParseParam(acc, param) ==
    IF Len(param) = 0 THEN acc
    ELSE CHOOSE r \in
             {IF Len(values) # 2 THEN [acc EXCEPT !.err = TRUE]
              ELSE IF values[1] \notin KnownParams THEN acc
              ELSE IF ~stoi(values[2]).ok THEN [acc EXCEPT !.err = TRUE]
              ELSE [acc EXCEPT !.ret = SetParam(acc.ret, values[1], stoi(values[2]).val)] :
                 values \in {Split(param, "=")}} : TRUE

\* The loop "for (const auto& param : params)" from the i-th (from 1) on.
RECURSIVE ParseParamsLoop(_, _, _)
ParseParamsLoop(params, i, acc) ==
    IF i > Len(params) \/ acc.err THEN acc
    ELSE CHOOSE out \in
             {ParseParamsLoop(params, i + 1, n) : n \in {ParseParam(acc, params[i])}} : TRUE

\* ParseSeedDBParams: [err, ret].
ParseSeedDBParams(paramsStr) ==
    CHOOSE out \in
        {ParseParamsLoop(params, 1, [err |-> FALSE, ret |-> DefaultSeedDBParameters]) :
            params \in {Split(paramsStr, ",")}} : TRUE

\* A default-constructed SeedDBIndexCache with its file name set.
EmptyCache(indexFilename) ==
    [indexFilename |-> indexFilename, version |-> <<>>, seedParams |-> DefaultSeedDBParameters,
     fileLines |-> <<>>, seedLines |-> <<>>, blockLines |-> <<>>]

SeedDBFileLine(v) ==
    [fileId |-> v[1], filename |-> v[2], numSequences |-> v[3], numBytes |-> v[4]]

SeedDBSeedsLine(v) ==
    [seqId |-> v[1], header |-> v[2], fileId |-> v[3], fileOffset |-> v[4], numBytes |-> v[5],
     numBases |-> v[6], numSeeds |-> v[7]]

SeedDBBlockLine(v) ==
    [blockId |-> v[1], startSeqId |-> v[2], endSeqId |-> v[3], numBytes |-> v[4]]

\* The codes of ' ' and '\t'.
WhitespaceCodes == {32, 9}

\* The loop "for (offset = 1; offset < lineLen && (offset == ' ' || offset ==
\* '\t'); ++offset)": it compares the offset, not the character at it.
RECURSIVE FirstNonWhitespace(_, _)
FirstNonWhitespace(offset, lineLen) ==
    IF offset < lineLen /\ offset \in WhitespaceCodes
    THEN FirstNonWhitespace(offset + 1, lineLen)
    ELSE offset

\* A test of the sequence id that lets an id below the ordinal through.
InvalidSeqIdAbove(seqId, cache) == seqId > Len(cache.seedLines)

\* The test "sl.seqId != cache->seedLines.size()" of both loaders.
InvalidSeqId(seqId, cache) == seqId # Len(cache.seedLines)

\* The case of the token in the loader from a FILE*, for a line as getline
\* returns it (with its "\n"): [err, cache].
FileLoadLine(cache, line) ==
    LET token == line[1]
    IN  IF token = "V"
        THEN CHOOSE r \in
                 {IF Len(v) # 1 THEN [err |-> TRUE, cache |-> cache]
                  ELSE [err |-> FALSE, cache |-> [cache EXCEPT !.version = v[1]]] :
                     v \in {sscanf(line, 2, <<"s">>)}} : TRUE
        ELSE IF token = "P"
        THEN CHOOSE r \in
                 {IF ps.err THEN [err |-> TRUE, cache |-> cache]
                  ELSE [err |-> FALSE, cache |-> [cache EXCEPT !.seedParams = ps.ret]] :
                     ps \in {ParseSeedDBParams(
                               SubSeq(line, FirstNonWhitespace(1, Len(line) + 1) + 1,
                                      Len(line)))}} : TRUE
        ELSE IF token = "F"
        THEN CHOOSE r \in
                 {IF Len(v) # 4 THEN [err |-> TRUE, cache |-> cache]
                  ELSE [err |-> FALSE,
                        cache |-> [cache EXCEPT
                                      !.fileLines = Append(@, SeedDBFileLine(v))]] :
                     v \in {sscanf(line, 2, <<"d", "s", "d", "d">>)}} : TRUE
        ELSE IF token = "S"
        THEN CHOOSE r \in
                 {IF Len(v) # 7 THEN [err |-> TRUE, cache |-> cache]
                  ELSE IF InvalidSeqId(v[1], cache) THEN [err |-> TRUE, cache |-> cache]
                  ELSE [err |-> FALSE,
                        cache |-> [cache EXCEPT
                                      !.seedLines = Append(@, SeedDBSeedsLine(v))]] :
                     v \in {sscanf(line, 2, <<"d", "s", "d", "d", "d", "d", "d">>)}} : TRUE
        ELSE IF token = "B"
        THEN CHOOSE r \in
                 {IF Len(v) # 4 THEN [err |-> TRUE, cache |-> cache]
                  ELSE [err |-> FALSE,
                        cache |-> [cache EXCEPT
                                      !.blockLines = Append(@, SeedDBBlockLine(v))]] :
                     v \in {sscanf(line, 2, <<"d", "d", "d", "d">>)}} : TRUE
        ELSE [err |-> TRUE, cache |-> cache]

\* The loop "while (getline(&line, &lineLen, fpIn) != -1)" from the i-th line on.
RECURSIVE FileLoadLoop(_, _, _)
FileLoadLoop(text, i, acc) ==
    IF i > Len(text) \/ acc.err THEN acc
    ELSE CHOOSE out \in
             {FileLoadLoop(text, i + 1, n) :
                 n \in {FileLoadLine(acc.cache, text[i] \o <<"\n">>)}} : TRUE

\* LoadSeedDBIndexCache(FILE*, indexFilename): [err, cache].
LoadSeedDBIndexCacheFile(text, indexFilename) ==
    FileLoadLoop(text, 1, [err |-> FALSE, cache |-> EmptyCache(indexFilename)])

\* LoadSeedDBIndexCache(indexFilename): [err, cache].  files gives the text of
\* every file that fopen can open.
LoadSeedDBIndexCacheByName(files, indexFilename) ==
    IF indexFilename \notin DOMAIN files
    THEN [err |-> TRUE, cache |-> EmptyCache(indexFilename)]
    ELSE LoadSeedDBIndexCacheFile(files[indexFilename], indexFilename)

\* The case of the token in the loader from a stream, for a line that is not
\* empty: [err, cache, token].  prevToken is what the variable token holds
\* when the line is read.
StreamLoadLine(cache, line, prevToken) ==
    CHOOSE r \in
        {IF t.val = "V"
         THEN [err |-> FALSE, token |-> t.val,
               cache |-> [cache EXCEPT
                             !.version = ExtractAll(line, t.st, <<"s">>, <<cache.version>>)[1]]]
         ELSE IF t.val = "P"
         THEN CHOOSE p \in
                  {[err |-> ps.err, token |-> t.val,
                    cache |-> IF ps.err THEN cache ELSE [cache EXCEPT !.seedParams = ps.ret]] :
                      ps \in {ParseSeedDBParams(
                                ExtractAll(line, t.st, <<"s">>, <<<<>>>>)[1])}} : TRUE
         ELSE IF t.val = "F"
         THEN [err |-> FALSE, token |-> t.val,
               cache |-> [cache EXCEPT
                             !.fileLines =
                                 Append(@, SeedDBFileLine(
                                     ExtractAll(line, t.st, <<"d", "s", "d", "d">>,
                                                <<0, <<>>, 0, 0>>)))]]
         ELSE IF t.val = "S"
         THEN CHOOSE q \in
                  {IF InvalidSeqId(sl.seqId, cache)
                   THEN [err |-> TRUE, token |-> t.val, cache |-> cache]
                   ELSE [err |-> FALSE, token |-> t.val,
                         cache |-> [cache EXCEPT !.seedLines = Append(@, sl)]] :
                      sl \in {SeedDBSeedsLine(
                                ExtractAll(line, t.st, <<"d", "s", "d", "d", "d", "d", "d">>,
                                           <<0, <<>>, 0, 0, 0, 0, 0>>))}} : TRUE
         ELSE IF t.val = "B"
         THEN [err |-> FALSE, token |-> t.val,
               cache |-> [cache EXCEPT
                             !.blockLines =
                                 Append(@, SeedDBBlockLine(
                                     ExtractAll(line, t.st, <<"d", "d", "d", "d">>,
                                                <<0, -1, -1, 0>>)))]]
         ELSE [err |-> TRUE, token |-> t.val, cache |-> cache] :
            t \in {Extract(line, [pos |-> 1, fail |-> FALSE], "c", prevToken)}} : TRUE

\* The loop "while (std::getline(is, line))" from the i-th line on.
RECURSIVE StreamLoadLoop(_, _, _)
StreamLoadLoop(text, i, acc) ==
    IF i > Len(text) \/ acc.err THEN acc
    ELSE IF Len(text[i]) = 0 THEN StreamLoadLoop(text, i + 1, acc)
    ELSE CHOOSE out \in
             {StreamLoadLoop(text, i + 1, n) :
                 n \in {StreamLoadLine(acc.cache, text[i], acc.token)}} : TRUE

\* LoadSeedDBIndexCache(std::istream&, indexFilename): [err, cache].  token is
\* what the uninitialized variable token holds at first.
LoadSeedDBIndexCacheStream(text, indexFilename, token) ==
    CHOOSE out \in
        {[err |-> r.err \/ Len(r.cache.seedLines) = 0, cache |-> r.cache] :
            r \in {StreamLoadLoop(text, 1, [err |-> FALSE, cache |-> EmptyCache(indexFilename),
                                            token |-> token])}} : TRUE

(***************************************************************************)
(* operator<< of the index cache.                                          *)
(***************************************************************************)
\* The fields of a line, each after a tab.
RECURSIVE TabSeparated(_)
TabSeparated(fields) ==
    IF Len(fields) = 0 THEN <<>>
    ELSE <<"\t">> \o fields[1] \o TabSeparated(Tail(fields))

VersionLine(r) == <<"V", "\t">> \o r.version

ParamsLine(r) ==
    <<"P", "\t", "k", "=">> \o DecimalOf(r.seedParams.KmerSize)
        \o <<",", "w", "=">> \o DecimalOf(r.seedParams.MinimizerWindow)
        \o <<",", "hpc", "=">> \o DecimalOf(r.seedParams.UseHPC)
        \o <<",", "hpc_len", "=">> \o DecimalOf(r.seedParams.MaxHPCLen)
        \o <<",", "rc", "=">> \o DecimalOf(r.seedParams.UseRC)

FileLine(fl) ==
    <<"F">> \o TabSeparated(<<DecimalOf(fl.fileId), fl.filename, DecimalOf(fl.numSequences),
                              DecimalOf(fl.numBytes)>>)

SeedsLine(sl) ==
    <<"S">> \o TabSeparated(<<DecimalOf(sl.seqId), sl.header, DecimalOf(sl.fileId),
                              DecimalOf(sl.fileOffset), DecimalOf(sl.numBytes),
                              DecimalOf(sl.numBases), DecimalOf(sl.numSeeds)>>)

BlockLine(bl) ==
    <<"B">> \o TabSeparated(<<DecimalOf(bl.blockId), DecimalOf(bl.startSeqId),
                              DecimalOf(bl.endSeqId), DecimalOf(bl.numBytes)>>)

\* operator<<: the lines written.
EmitCache(r) ==
    <<VersionLine(r), ParamsLine(r)>>
        \o [i \in 1..Len(r.fileLines) |-> FileLine(r.fileLines[i])]
        \o [i \in 1..Len(r.seedLines) |-> SeedsLine(r.seedLines[i])]
        \o [i \in 1..Len(r.blockLines) |-> BlockLine(r.blockLines[i])]

(***************************************************************************)
(* SeedIndex::BuildHash_.                                                  *)
(***************************************************************************)
HashPut(h, k, v) == [x \in DOMAIN h \cup {k} |-> IF x = k THEN v ELSE h[x]]

EmptyHash == [x \in {} |-> <<0, 0>>]

\* The run of equal keys is closed at a seed whose key differs from prevKey.
HashLoopCloses(key, prevKey) == key # prevKey

\* The loop "for (i = 0; i < seeds_.size(); ++i)" from iteration i on, with the
\* locals start, end, prevKey and the hash h; the value is the locals after it.
RECURSIVE BuildHashLoop(_, _, _, _, _, _)
BuildHashLoop(s, i, start, end, prevKey, h) ==
    IF i >= Len(s) THEN [start |-> start, end |-> end, prevKey |-> prevKey, h |-> h]
    ELSE LET key == DecodeKey(s[i + 1])
         IN  IF ~HashLoopCloses(key, prevKey)
             THEN BuildHashLoop(s, i + 1, start, end + 1, key, h)
             ELSE CHOOSE r \in
                      {BuildHashLoop(s, i + 1, i, i + 1, key, put) :
                          put \in {HashPut(h, prevKey, <<start, end>>)}} : TRUE

\* A BuildHash_ that forgets the run still open when the loop ends.
BuildHash_NoFinalRun(s) ==
    IF Len(s) = 0 THEN [seeds |-> s, hash |-> EmptyHash]
    ELSE CHOOSE r \in
             {[seeds |-> sorted,
               hash |-> BuildHashLoop(sorted, 0, 0, 0, DecodeKey(sorted[1]), EmptyHash).h] :
                 sorted \in {radix_sort(s)}} : TRUE

\* The hash after the loop over the sorted array: the run still open is put.
HashOfSorted(sorted) ==
    CHOOSE r \in
        {IF l.end > l.start THEN HashPut(l.h, l.prevKey, <<l.start, l.end>>) ELSE l.h :
            l \in {BuildHashLoop(sorted, 0, 0, 0, DecodeKey(sorted[1]), EmptyHash)}} : TRUE

\* BuildHash_ on the array given to the constructor: the sorted array and the hash.
BuildHash_(s) ==
    IF Len(s) = 0 THEN [seeds |-> s, hash |-> EmptyHash]
    ELSE CHOOSE r \in
             {[seeds |-> sorted, hash |-> HashOfSorted(sorted)] :
                 sorted \in {radix_sort(s)}} : TRUE

(***************************************************************************)
(* SeedIndex::GetSeeds.                                                    *)
(***************************************************************************)
Slice(s, start, end) == [i \in 1..(end - start) |-> s[start + i]]

GetSeeds(s, h, key) ==
    IF key \notin DOMAIN h THEN [seeds |-> <<>>, ret |-> 0]
    ELSE [seeds |-> Slice(s, h[key][1], h[key][2]), ret |-> h[key][2] - h[key][1]]

(***************************************************************************)
(* SeedIndex::CollectHits.                                                 *)
(***************************************************************************)
SeedHit(targetId, targetRev, targetPos, flags, queryPos) ==
    [targetId |-> targetId, targetRev |-> targetRev, targetPos |-> targetPos,
     flags |-> flags, queryPos |-> queryPos]

\* A cutoff that also skips a bucket of exactly freqCutoff seeds.
SkipFrequentInclusive(start, end, freqCutoff) ==
    freqCutoff > 0 /\ (end - start) >= freqCutoff

\* "Skip very frequent seeds": the bucket [start, end) is skipped.
SkipFrequent(start, end, freqCutoff) == freqCutoff > 0 /\ (end - start) > freqCutoff

\* The reflection of a single base instead of a k-mer.
ReflectedPosOfBase(numBases, pos, kmerSize) == numBases - (pos + 1)

\* The target position of a hit on the opposite strand.
ReflectedPos(numBases, pos, kmerSize) == numBases - (pos + kmerSize)

\* The body of the inner loop for one target seed: the hit, or a throw of
\* GetSeedsLine.
HitOf(cache, decodedQuery, decodedTarget) ==
    LET kmerSize == cache.seedParams.KmerSize
        differ == decodedQuery.rev # decodedTarget.rev
    IN  IF differ /\ GetSeedsLineThrows(cache, decodedTarget.seqID)
        THEN [err |-> TRUE]
        ELSE [err |-> FALSE,
              hit |-> SeedHit(decodedTarget.seqID, differ,
                              IF differ
                              THEN ReflectedPos(GetSeedsLine(cache, decodedTarget.seqID).numBases,
                                                decodedTarget.pos, kmerSize)
                              ELSE decodedTarget.pos,
                              0, decodedQuery.pos)]

\* The inner loop "for (i = start; i < end; ++i)" from i on.
RECURSIVE BucketHits(_, _, _, _, _, _)
BucketHits(cache, s, decodedQuery, i, end, acc) ==
    IF i >= end \/ acc.err THEN acc
    ELSE CHOOSE r \in
             {IF h.err THEN [err |-> TRUE, hits |-> acc.hits]
              ELSE BucketHits(cache, s, decodedQuery, i + 1, end,
                              [err |-> FALSE, hits |-> Append(acc.hits, h.hit)]) :
                 h \in {HitOf(cache, decodedQuery, Seed(s[i + 1]))}} : TRUE

\* The outer loop over the query seeds from the q-th (from 1) on.
RECURSIVE CollectLoop(_, _, _, _, _, _, _)
CollectLoop(cache, s, h, querySeeds, freqCutoff, q, acc) ==
    IF q > Len(querySeeds) \/ acc.err THEN acc
    ELSE LET decodedQuery == Seed(querySeeds[q])
         IN  IF decodedQuery.key \notin DOMAIN h
             THEN CollectLoop(cache, s, h, querySeeds, freqCutoff, q + 1, acc)
             ELSE LET start == h[decodedQuery.key][1]
                      end == h[decodedQuery.key][2]
                  IN  IF SkipFrequent(start, end, freqCutoff)
                      THEN CollectLoop(cache, s, h, querySeeds, freqCutoff, q + 1, acc)
                      ELSE CHOOSE r \in
                               {CollectLoop(cache, s, h, querySeeds, freqCutoff, q + 1, b) :
                                   b \in {BucketHits(cache, s, decodedQuery, start, end,
                                                     acc)}} : TRUE

\* hits.clear() on the caller's list.
ClearHits(outHits) == <<>>

\* CollectHits on the caller's list outHits (the in/out parameter "hits"):
\* hits.clear(), then the loops.  err: an exception left the call.
CollectHits(cache, s, h, querySeeds, outHits, freqCutoff) ==
    CHOOSE out \in
        {[err |-> r.err, hits |-> r.hits, ret |-> Len(r.hits) > 0] :
            r \in {CollectLoop(cache, s, h, querySeeds, freqCutoff, 1,
                               [err |-> FALSE, hits |-> ClearHits(outHits)])}} : TRUE

(***************************************************************************)
(* SeedIndex::ComputeFrequencyStats.  percentileCutoff is a rational       *)
(* <<numerator, denominator>> with a denominator that is a power of two,   *)
(* a double that the arithmetic of the function does not round; so are the *)
(* average and the median returned.                                        *)
(***************************************************************************)
\* The test of percentileCutoff that throws.
InvalidPercentile(percentileCutoff) ==
    percentileCutoff[1] < 0 \/ percentileCutoff[1] > percentileCutoff[2]

\* The loop over hash_ that collects the spans that are not 0, each as the
\* 1-tuple radix_sort orders; keys are the keys not visited yet.
RECURSIVE CollectFreqs(_, _)
CollectFreqs(h, keys) ==
    IF keys = {} THEN <<>>
    ELSE CHOOSE out \in
             {(IF h[k][2] - h[k][1] = 0 THEN <<>> ELSE <<<<h[k][2] - h[k][1]>>>>)
                  \o CollectFreqs(h, keys \ {k}) :
                 k \in {CHOOSE k \in keys : TRUE}} : TRUE

RECURSIVE SumFreqs(_)
SumFreqs(freqs) == IF Len(freqs) = 0 THEN 0 ELSE freqs[1][1] + SumFreqs(Tail(freqs))

\* floor(numKeys * (1.0 - percentileCutoff)).
CutoffId(numValidKeys, percentileCutoff) ==
    (numValidKeys * (percentileCutoff[2] - percentileCutoff[1])) \div percentileCutoff[2]

\* What the read of freqs[freqs.size()] may give: the vector holds no such
\* element.
PastTheEnd == {-1, 0, 1}

\* The return values once freqs is sorted; the outcomes are several when the
\* cutoff element is read past the end of freqs, and one of them is a crash.
FrequencyStatsOf(freqs, numValidKeys, percentileCutoff) ==
    LET cutoffId == CutoffId(numValidKeys, percentileCutoff)
        stats(cutoff) ==
            [err |-> FALSE, crash |-> FALSE,
             retFreqMax |-> freqs[Len(freqs)][1],
             retFreqCutoff |-> cutoff,
             retFreqAvg |-> <<SumFreqs(freqs), numValidKeys>>,
             retFreqMedian |-> <<freqs[(numValidKeys \div 2) + 1][1]
                                     + freqs[((numValidKeys - 1) \div 2) + 1][1], 2>>]
    IN  IF cutoffId < Len(freqs) THEN {stats(freqs[cutoffId + 1][1])}
        ELSE {stats(v) : v \in PastTheEnd} \cup {[err |-> FALSE, crash |-> TRUE]}

\* ComputeFrequencyStats: the outcomes it may have.
ComputeFrequencyStats(h, percentileCutoff) ==
    IF InvalidPercentile(percentileCutoff) THEN {[err |-> TRUE, crash |-> FALSE]}
    ELSE IF DOMAIN h = {}
    THEN {[err |-> FALSE, crash |-> FALSE, retFreqMax |-> 0, retFreqCutoff |-> 0,
           retFreqAvg |-> <<0, 1>>, retFreqMedian |-> <<0, 1>>]}
    ELSE UNION {IF Len(freqs) <= 0 THEN {[err |-> TRUE, crash |-> FALSE]}
                ELSE FrequencyStatsOf(radix_sort(freqs), Len(freqs), percentileCutoff) :
                   freqs \in {CollectFreqs(h, DOMAIN h)}}

(***************************************************************************)
(* The seed index: its inputs, and its operations as actions.              *)
(***************************************************************************)
MaxSeeds == 3

MaxQuerySeeds == 2

\* The keys of the target seeds; key 3 is a key no target seed has.
TargetKeys == {1, 2}

LookupKeys == {1, 2, 3}

\* The caches an index is built over: two sequences, their lengths in numBases.
MakeSeedsLine(seqId, numBases) ==
    [seqId |-> seqId, header |-> <<"s">>, fileId |-> 0, fileOffset |-> 0,
     numBytes |-> 0, numBases |-> numBases, numSeeds |-> 0]

MakeCache(kmerSize, seedLines) ==
    [version |-> <<"0.1.0">>,
     seedParams |-> [KmerSize |-> kmerSize, MinimizerWindow |-> 80, UseHPC |-> 0,
                     MaxHPCLen |-> 10, UseRC |-> 1],
     fileLines |-> <<>>, seedLines |-> seedLines, blockLines |-> <<>>]

IndexCaches == {MakeCache(3, <<MakeSeedsLine(0, 7), MakeSeedsLine(1, 9)>>)}

\* Where a target seed lies: <<seqID, pos, strand>>, inside its sequence.
Placements == {<<0, 0, FALSE>>, <<0, 4, TRUE>>, <<1, 4, TRUE>>}

TargetSeeds == {Encode(k, p[1], p[2], p[3]) : k \in TargetKeys, p \in Placements}

\* The query's seeds: forward ones at position 1, reverse ones at position 2.
QuerySeeds ==
    {Encode(1, 0, 1, FALSE), Encode(1, 0, 2, TRUE), Encode(2, 0, 1, FALSE),
     Encode(3, 0, 2, TRUE)}

\* What the caller's hit list holds before a call: nothing, or a hit of an
\* earlier query.
StaleHit == SeedHit(1, FALSE, 5, 0, 6)

PriorHits == {<<>>, <<StaleHit>>}

FreqCutoffs == {0, 1, 2}

NoQuery == [Id |-> 0, len |-> 0]

NoTargets == <<>>

NoMap == [pc |-> "none"]

InitIndex ==
    /\ seeds_ \in SeqsUpTo(TargetSeeds, MaxSeeds)
    /\ hash_ = EmptyHash
    /\ seedDBCache_ \in IndexCaches
    /\ indexFile = NoFile
    /\ call = NoCall
    /\ writer = NoWriter
    /\ querySeq = NoQuery
    /\ targetSeqs = NoTargets
    /\ hits = <<>>
    /\ overlaps = <<>>
    /\ map = NoMap

\* SeedIndex::SeedIndex: takes the array and builds the hash.
SeedIndexCtor ==
    /\ call.op = "none"
    /\ LET b == BuildHash_(seeds_)
       IN  /\ seeds_' = b.seeds
           /\ hash_' = b.hash
           /\ call' = [op |-> "SeedIndex", given |-> seeds_]
    /\ UNCHANGED <<writer, seedDBCache_, indexFile, mapperVars>>

CallGetSeeds ==
    /\ call.op = "SeedIndex"
    /\ \E key \in LookupKeys :
           LET r == GetSeeds(seeds_, hash_, key)
           IN  call' = [op |-> "GetSeeds", given |-> call.given, key |-> key,
                        seeds |-> r.seeds, ret |-> r.ret]
    /\ UNCHANGED <<writer, indexVars, mapperVars>>

CallCollectHits ==
    /\ call.op = "SeedIndex"
    /\ \E querySeeds \in SeqsUpTo(QuerySeeds, MaxQuerySeeds),
          prior \in PriorHits, freqCutoff \in FreqCutoffs :
           LET r == CollectHits(seedDBCache_, seeds_, hash_, querySeeds, prior, freqCutoff)
           IN  call' = [op |-> "CollectHits", given |-> call.given,
                        querySeeds |-> querySeeds, prior |-> prior,
                        freqCutoff |-> freqCutoff,
                        err |-> r.err, hits |-> r.hits, ret |-> r.ret]
    /\ UNCHANGED <<writer, indexVars, mapperVars>>

\* The cutoffs asked for: the quarters from -1/4 to 5/4.
Percentiles == {<<q, 4>> : q \in (-1)..5}

CallComputeFrequencyStats ==
    /\ call.op = "SeedIndex"
    /\ \E percentileCutoff \in Percentiles :
       \E r \in ComputeFrequencyStats(hash_, percentileCutoff) :
           call' = [op |-> "ComputeFrequencyStats", given |-> call.given,
                    percentileCutoff |-> percentileCutoff, ret |-> r]
    /\ UNCHANGED <<writer, indexVars, mapperVars>>

NextIndex == SeedIndexCtor \/ CallGetSeeds \/ CallCollectHits \/ CallComputeFrequencyStats

SpecIndex == InitIndex /\ [][NextIndex]_vars


(***************************************************************************)
(* Mapper: the hit-sort key and the sort of Map.                           *)
(***************************************************************************)
TwoTo30 == 1073741824

MaxInt32 == 2147483647

\* x & MASK_32bit for an int32 x widened to __int128: the 32-bit two's
\* complement pattern of x, as <<bit 31, bits 30..0>>.
Mask32(x) == IF x < 0 THEN <<1, (x + MaxInt32) + 1>> ELSE <<0, x>>

\* (targetId & MASK_32bit) << 97 in a signed 128-bit word: bits 30..0 of
\* targetId land on bits 127..97, bit 30 on the sign bit.
TopField(targetId) ==
    LET low31 == Mask32(targetId)[2]
    IN  IF low31 >= TwoTo30 THEN (low31 - MaxInt32) - 1 ELSE low31

Diagonal(sh) == sh.targetPos - sh.queryPos

\* The diagonal as stored in its 32-bit slot of the key.
DiagSlot(diag) == Mask32(diag)

\* PackSeedHitWithDiagonalTo128_: the key as the tuple of its fields, most
\* significant first; the first field carries the sign of the word.
PackSeedHitWithDiagonalTo128_(sh) ==
    <<TopField(sh.targetId), IF sh.targetRev THEN 1 ELSE 0>>
        \o DiagSlot(Diagonal(sh)) \o Mask32(sh.targetPos) \o Mask32(sh.queryPos)

\* The comparison of the lambda given to std::sort in Map.
HitLess(a, b) ==
    LexLess(PackSeedHitWithDiagonalTo128_(a), PackSeedHitWithDiagonalTo128_(b))

RECURSIVE InsertHit(_, _)
InsertHit(x, s) ==
    IF Len(s) = 0 THEN <<x>>
    ELSE IF HitLess(x, s[1]) THEN <<x>> \o s
    ELSE <<s[1]>> \o InsertHit(x, Tail(s))

\* std::sort of the hits by the key: hits of equal key are equal in every
\* field, so the sorted list is unique.
RECURSIVE SortHits(_)
SortHits(s) ==
    IF Len(s) = 0 THEN <<>>
    ELSE CHOOSE r \in {InsertHit(s[1], rest) : rest \in {SortHits(Tail(s))}} : TRUE

(***************************************************************************)
(* Overlaps (pacbio/overlaphifi/Overlap.h).  Identity is a rational        *)
(* <<numerator, denominator>> with denominator > 0; Score is an integer.   *)
(***************************************************************************)
createOverlap(Aid, Bid, score, identity, Arev, Astart, Aend, Alen, Brev, Bstart, Bend, Blen, editDist, numSeeds) ==
    [Aid |-> Aid, Bid |-> Bid, Score |-> score, Identity |-> identity, Arev |-> Arev,
     Astart |-> Astart, Aend |-> Aend, Alen |-> Alen, Brev |-> Brev, Bstart |-> Bstart,
     Bend |-> Bend, Blen |-> Blen, EditDistance |-> editDist, NumSeeds |-> numSeeds]

ASpan(ovl) == ovl.Aend - ovl.Astart

BSpan(ovl) == ovl.Bend - ovl.Bstart

(***************************************************************************)
(* Mapper::MakeOverlap_ and Mapper::FormDiagonalAnchors_.                  *)
(***************************************************************************)
\* MakeOverlap_: err when it throws (the target ids of the two end hits
\* differ, or GetSeedsLine throws).
MakeOverlap_(sortedHits, query, cache, beginId, endId, minTargetPosId, maxTargetPosId) ==
    LET beginHit == sortedHits[minTargetPosId + 1]
        endHit == sortedHits[maxTargetPosId + 1]
        targetId == beginHit.targetId
        numSeeds == endId - beginId
    IN  IF endHit.targetId # beginHit.targetId \/ GetSeedsLineThrows(cache, targetId)
        THEN [err |-> TRUE]
        ELSE [err |-> FALSE,
              ovl |-> createOverlap(query.Id, targetId, numSeeds, <<0, 1>>, 0,
                                    beginHit.queryPos, endHit.queryPos, query.len,
                                    beginHit.targetRev, beginHit.targetPos,
                                    endHit.targetPos, GetSeedsLine(cache, targetId).numBases,
                                    -1, numSeeds)]

\* (targetPos << 32) | queryPos as an unsigned 64-bit value, for a queryPos >= 0.
PosCombo(sh) == Mask32(sh.targetPos) \o Mask32(sh.queryPos)

\* A test that leaves a group open across the two strands of a target.
ClosesGroupAnyStrand(currHit, prevHit, beginDiag, chainBandwidth) ==
    \/ currHit.targetId # prevHit.targetId
    \/ Abs(Diagonal(currHit) - beginDiag) > chainBandwidth

\* The hit currHit closes the group that began at prevHit with diagonal beginDiag.
ClosesGroup(currHit, prevHit, beginDiag, chainBandwidth) ==
    \/ currHit.targetId # prevHit.targetId
    \/ currHit.targetRev # prevHit.targetRev
    \/ Abs(Diagonal(currHit) - beginDiag) > chainBandwidth

\* An admission test that forgets the span on the query.
AdmitInSweepNoASpan(ovl, minNumSeeds, minChainSpan, skipSelfHits, skipSymmetricOverlaps) ==
    /\ ovl.NumSeeds >= minNumSeeds
    /\ BSpan(ovl) > minChainSpan
    /\ (skipSelfHits = FALSE \/ (skipSelfHits /\ ovl.Bid # ovl.Aid))
    /\ (skipSymmetricOverlaps = FALSE \/ (skipSymmetricOverlaps /\ ovl.Bid < ovl.Aid))

\* The admission test of a group closed inside the sweep.
AdmitInSweep(ovl, minNumSeeds, minChainSpan, skipSelfHits, skipSymmetricOverlaps) ==
    /\ ovl.NumSeeds >= minNumSeeds
    /\ ASpan(ovl) > minChainSpan
    /\ BSpan(ovl) > minChainSpan
    /\ (skipSelfHits = FALSE \/ (skipSelfHits /\ ovl.Bid # ovl.Aid))
    /\ (skipSymmetricOverlaps = FALSE \/ (skipSymmetricOverlaps /\ ovl.Bid < ovl.Aid))

\* An admission test at the flush that lets the query's own sequence through.
AdmitAtFlushSelf(ovl, minNumSeeds, minChainSpan, skipSelfHits, skipSymmetricOverlaps) ==
    /\ ovl.NumSeeds >= minNumSeeds
    /\ ASpan(ovl) > minChainSpan
    /\ BSpan(ovl) > minChainSpan
    /\ (skipSymmetricOverlaps = FALSE \/ (skipSymmetricOverlaps /\ ovl.Bid < ovl.Aid))

\* The admission test of the group flushed after the sweep.
AdmitAtFlush(ovl, minNumSeeds, minChainSpan, skipSelfHits, skipSymmetricOverlaps) ==
    /\ ovl.NumSeeds >= minNumSeeds
    /\ ASpan(ovl) > minChainSpan
    /\ BSpan(ovl) > minChainSpan
    /\ (skipSelfHits = FALSE \/ (skipSelfHits /\ ovl.Bid # ovl.Aid))
    /\ (skipSymmetricOverlaps = FALSE \/ (skipSymmetricOverlaps /\ ovl.Bid < ovl.Aid))

\* One MakeOverlap_ call of the sweep, as recorded in "made".
GroupCall(beginId, endId, minPosId, maxPosId, atFlush, r) ==
    [beginId |-> beginId, endId |-> endId, minPosId |-> minPosId, maxPosId |-> maxPosId,
     atFlush |-> atFlush, err |-> r.err, ovl |-> IF r.err THEN <<>> ELSE r.ovl]

\* The "if" of the sweep that closes the group [beginId, i) at the hit i, given
\* r, what MakeOverlap_ returned for the group: the locals after it.
CloseGroup(p, i, l, r) ==
    IF r.err
    THEN [l EXCEPT !.err = TRUE,
                   !.made = Append(l.made, GroupCall(l.beginId, i, l.minPosId, l.maxPosId,
                                                     FALSE, r))]
    ELSE [l EXCEPT !.beginId = i,
                   !.beginDiag = Diagonal(p.sortedHits[i + 1]),
                   !.overlaps = IF AdmitInSweep(r.ovl, p.minNumSeeds, p.minChainSpan,
                                                p.skipSelfHits, p.skipSymmetricOverlaps)
                                THEN Append(l.overlaps, r.ovl)
                                ELSE l.overlaps,
                   !.minPosId = i, !.maxPosId = i,
                   !.minCombo = PosCombo(p.sortedHits[i + 1]),
                   !.maxCombo = PosCombo(p.sortedHits[i + 1]),
                   !.made = Append(l.made, GroupCall(l.beginId, i, l.minPosId, l.maxPosId,
                                                     FALSE, r))]

\* The tracking of the hit of the least position of the group.
TrackMin(i, combo, c) ==
    IF LexLess(combo, c.minCombo) THEN [c EXCEPT !.minPosId = i, !.minCombo = combo] ELSE c

\* The tracking of the hit of the greatest position of the group.
TrackMax(i, combo, m) ==
    IF LexLess(m.maxCombo, combo) THEN [m EXCEPT !.maxPosId = i, !.maxCombo = combo] ELSE m

\* One iteration of the sweep "for (i = 0; i < numHits; ++i)".  p holds the
\* arguments, l the locals: beginId, beginDiag, minCombo, maxCombo, minPosId,
\* maxPosId, overlaps, and made, the MakeOverlap_ calls so far.
SweepStep(p, i, l) ==
    CHOOSE n \in
        {IF c.err THEN c
         ELSE CHOOSE x \in {TrackMax(i, PosCombo(p.sortedHits[i + 1]), m) :
                               m \in {TrackMin(i, PosCombo(p.sortedHits[i + 1]), c)}} : TRUE :
            c \in {IF ~ClosesGroup(p.sortedHits[i + 1], p.sortedHits[l.beginId + 1],
                                   l.beginDiag, p.chainBandwidth)
                   THEN l
                   ELSE CHOOSE y \in {CloseGroup(p, i, l, r) :
                                         r \in {MakeOverlap_(p.sortedHits, p.query, p.cache,
                                                             l.beginId, i, l.minPosId,
                                                             l.maxPosId)}} : TRUE}} : TRUE

\* The sweep from iteration i on.
RECURSIVE SweepLoop(_, _, _)
SweepLoop(p, i, l) ==
    IF i >= Len(p.sortedHits) \/ l.err THEN l
    ELSE CHOOSE out \in {SweepLoop(p, i + 1, n) : n \in {SweepStep(p, i, l)}} : TRUE

\* A flush that leaves a last group of one hit alone.
FlushOfMany(p, l, r) ==
    IF l.err THEN [err |-> TRUE, overlaps |-> <<>>, made |-> l.made]
    ELSE IF (Len(p.sortedHits) - l.beginId) > 1
    THEN IF r.err
         THEN [err |-> TRUE, overlaps |-> <<>>,
               made |-> Append(l.made, GroupCall(l.beginId, Len(p.sortedHits), l.minPosId,
                                                 l.maxPosId, TRUE, r))]
         ELSE [err |-> FALSE,
               overlaps |-> IF AdmitAtFlush(r.ovl, p.minNumSeeds, p.minChainSpan,
                                            p.skipSelfHits, p.skipSymmetricOverlaps)
                            THEN Append(l.overlaps, r.ovl)
                            ELSE l.overlaps,
               made |-> Append(l.made, GroupCall(l.beginId, Len(p.sortedHits), l.minPosId,
                                                 l.maxPosId, TRUE, r))]
    ELSE [err |-> FALSE, overlaps |-> l.overlaps, made |-> l.made]

\* The flush after the sweep, given l, the locals the sweep left, and r, what
\* MakeOverlap_ returns for the group still open.
Flush(p, l, r) ==
    IF l.err THEN [err |-> TRUE, overlaps |-> <<>>, made |-> l.made]
    ELSE IF (Len(p.sortedHits) - l.beginId) > 0
    THEN IF r.err
         THEN [err |-> TRUE, overlaps |-> <<>>,
               made |-> Append(l.made, GroupCall(l.beginId, Len(p.sortedHits), l.minPosId,
                                                 l.maxPosId, TRUE, r))]
         ELSE [err |-> FALSE,
               overlaps |-> IF AdmitAtFlush(r.ovl, p.minNumSeeds, p.minChainSpan,
                                            p.skipSelfHits, p.skipSymmetricOverlaps)
                            THEN Append(l.overlaps, r.ovl)
                            ELSE l.overlaps,
               made |-> Append(l.made, GroupCall(l.beginId, Len(p.sortedHits), l.minPosId,
                                                 l.maxPosId, TRUE, r))]
    ELSE [err |-> FALSE, overlaps |-> l.overlaps, made |-> l.made]

\* The sweep and the flush for the arguments p.
SweepAndFlush(p) ==
    CHOOSE out \in
        {CHOOSE f \in {Flush(p, l, r) :
                          r \in {MakeOverlap_(p.sortedHits, p.query, p.cache, l.beginId,
                                              Len(p.sortedHits), l.minPosId, l.maxPosId)}} :
             TRUE :
            l \in {SweepLoop(p, 0,
                             [err |-> FALSE, beginId |-> 0,
                              beginDiag |-> Diagonal(p.sortedHits[1]),
                              minCombo |-> PosCombo(p.sortedHits[1]),
                              maxCombo |-> PosCombo(p.sortedHits[1]),
                              minPosId |-> 0, maxPosId |-> 0, overlaps |-> <<>>,
                              made |-> <<>>])}} : TRUE

\* FormDiagonalAnchors_: [err, overlaps, made].
FormDiagonalAnchors_(sortedHits, query, cache, chainBandwidth, minNumSeeds, minChainSpan, skipSelfHits, skipSymmetricOverlaps) ==
    IF Len(sortedHits) = 0 THEN [err |-> FALSE, overlaps |-> <<>>, made |-> <<>>]
    ELSE CHOOSE out \in
             {SweepAndFlush(p) :
                 p \in {[sortedHits |-> sortedHits, query |-> query, cache |-> cache,
                         chainBandwidth |-> chainBandwidth, minNumSeeds |-> minNumSeeds,
                         minChainSpan |-> minChainSpan, skipSelfHits |-> skipSelfHits,
                         skipSymmetricOverlaps |-> skipSymmetricOverlaps]}} : TRUE

(***************************************************************************)
(* Mapper::FilterOverlaps_ and Mapper::FilterTandemOverlaps_.              *)
(***************************************************************************)
\* a < b for two rationals <<numerator, denominator>> of positive denominator.
RatLess(a, b) == a[1] * b[2] < b[1] * a[2]

\* The test with the target's length left out.
DroppedNoTargetLen(ovl, minNumSeeds, minIdentity, minMappedSpan, minQueryLen, minTargetLen) ==
    \/ RatLess(ovl.Identity, minIdentity)
    \/ ASpan(ovl) < minMappedSpan
    \/ BSpan(ovl) < minMappedSpan
    \/ ovl.NumSeeds < minNumSeeds
    \/ ovl.Alen < minQueryLen

\* The test of FilterOverlaps_ that drops an overlap.
Dropped(ovl, minNumSeeds, minIdentity, minMappedSpan, minQueryLen, minTargetLen) ==
    \/ RatLess(ovl.Identity, minIdentity)
    \/ ASpan(ovl) < minMappedSpan
    \/ BSpan(ovl) < minMappedSpan
    \/ ovl.NumSeeds < minNumSeeds
    \/ ovl.Alen < minQueryLen
    \/ ovl.Blen < minTargetLen

RECURSIVE FilterOverlaps_(_, _, _, _, _, _)
FilterOverlaps_(ovls, minNumSeeds, minIdentity, minMappedSpan, minQueryLen, minTargetLen) ==
    IF Len(ovls) = 0 THEN <<>>
    ELSE LET rest == FilterOverlaps_(Tail(ovls), minNumSeeds, minIdentity, minMappedSpan,
                                     minQueryLen, minTargetLen)
         IN  IF Dropped(ovls[1], minNumSeeds, minIdentity, minMappedSpan, minQueryLen,
                        minTargetLen)
             THEN rest
             ELSE <<ovls[1]>> \o rest

\* A comparison by Bid alone.
TandemLessByBid(a, b) == a.Bid < b.Bid

\* The comparison of the lambda given to std::sort in FilterTandemOverlaps_.
TandemLess(a, b) ==
    \/ a.Bid < b.Bid
    \/ (a.Bid = b.Bid /\ Max(ASpan(a), BSpan(a)) > Max(ASpan(b), BSpan(b)))

IndexPermutations(n) == {f \in [1..n -> 1..n] : \A i, j \in 1..n : f[i] = f[j] => i = j}

\* What std::sort may leave of the copy: any arrangement in which no overlap
\* comes after one it is less than (overlaps of the same Bid and length are
\* in no fixed order).
TandemSortings(ovls) ==
    {[i \in 1..Len(ovls) |-> ovls[f[i]]] : f \in
        {g \in IndexPermutations(Len(ovls)) :
            \A i, j \in 1..Len(ovls) : i < j => ~TandemLess(ovls[g[j]], ovls[g[i]])}}

\* The overlap ovl is passed over: the last one kept has its Bid.
SameBidAsLast(ovl, ret) == ovl.Bid = ret[Len(ret)].Bid

\* The loop "for (const auto& ovl : overlaps_copy)" from the i-th (from 1) on.
RECURSIVE TandemAccumulate(_, _, _)
TandemAccumulate(copy, i, ret) ==
    IF i > Len(copy) THEN ret
    ELSE IF SameBidAsLast(copy[i], ret) THEN TandemAccumulate(copy, i + 1, ret)
    ELSE TandemAccumulate(copy, i + 1, Append(ret, copy[i]))

\* FilterTandemOverlaps_, given the sorted copy std::sort left.
FilterTandemOverlaps_(ovls, sortedCopy) ==
    IF Len(ovls) = 0 THEN <<>>
    ELSE TandemAccumulate(sortedCopy, 1, <<sortedCopy[1]>>)

(***************************************************************************)
(* Mapper::FetchTargetSubsequence_ and Mapper::AlignOverlap_.  A sequence  *)
(* is known by its length; the alignment primitive SESDistanceBanded is    *)
(* known by its contract alone.                                            *)
(***************************************************************************)
\* The range test of FetchTargetSubsequence_ that throws.
InvalidRange(seqLen, seqStart, seqEnd) ==
    seqStart < 0 \/ seqEnd < 0 \/ seqStart > seqLen \/ seqEnd > seqLen \/ seqEnd < seqStart

\* A range test that lets a reversed range through.
InvalidRangeNoOrder(seqLen, seqStart, seqEnd) ==
    seqStart < 0 \/ seqEnd < 0 \/ seqStart > seqLen \/ seqEnd > seqLen

\* FetchTargetSubsequence_: an error, or the length of the string returned.
FetchTargetSubsequence_(targetSeq, seqStart, seqEnd, revCmp) ==
    LET seqLen == targetSeq.len
    IN  IF seqEnd = seqStart THEN [err |-> FALSE, size |-> 0]
        ELSE IF InvalidRange(seqLen, seqStart, seqEnd) THEN [err |-> TRUE]
        ELSE [err |-> FALSE, size |-> (IF seqEnd = 0 THEN seqLen ELSE seqEnd) - seqStart]

MaxDiffs == 2

\* The results SESDistanceBanded may return for a query of qLen and a target of
\* tLen bases: lastQueryPos <= qLen, lastTargetPos <= tLen, diffs >= 0.
SESDistanceBanded(qLen, tLen) ==
    [lastQueryPos : 0..qLen, lastTargetPos : 0..tLen, diffs : 0..MaxDiffs]

\* The results the primitive is given in the runs of Map: it stops at once or
\* reaches the end of both strings, with no difference or with MaxDiffs.
SESCorners(qLen, tLen) ==
    {r \in SESDistanceBanded(qLen, tLen) :
        /\ r.diffs \in {0, MaxDiffs}
        /\ \/ (r.lastQueryPos = 0 /\ r.lastTargetPos = 0)
           \/ (r.lastQueryPos = qLen /\ r.lastTargetPos = tLen)}

\* The results the primitive may give: all of them, or the corners alone.
SESResults(qLen, tLen, cornersOnly) ==
    IF cornersOnly THEN SESCorners(qLen, tLen) ELSE SESDistanceBanded(qLen, tLen)

NoSES == [lastQueryPos |-> 0, lastTargetPos |-> 0, diffs |-> 0]

\* The forward pass up to the call of the primitive: the query span and the
\* target string handed to it.
ForwardInput(targetSeq, ovl) ==
    LET qStart == ovl.Astart
        qEnd == ovl.Alen
        tStartFwd == IF ovl.Brev THEN ovl.Blen - ovl.Bend ELSE ovl.Bstart
        tEndFwd == IF ovl.Brev THEN ovl.Blen - ovl.Bstart ELSE ovl.Bend
    IN  [qSpan |-> qEnd - qStart,
         tseq |-> IF ovl.Brev
                  THEN FetchTargetSubsequence_(targetSeq, 0, tEndFwd, ovl.Brev)
                  ELSE FetchTargetSubsequence_(targetSeq, tStartFwd, ovl.Blen, ovl.Brev)]

\* A forward pass that takes the positions of the primitive for coordinates
\* of the sequences.
ForwardResultFromZero(ovl, sesResult) ==
    LET moved == [ovl EXCEPT !.Aend = sesResult.lastQueryPos,
                             !.Bend = sesResult.lastTargetPos,
                             !.EditDistance = sesResult.diffs]
    IN  [moved EXCEPT !.Score = -Max(ASpan(moved), BSpan(moved))]

\* The overlap after the forward pass.
ForwardResult(ovl, sesResult) ==
    LET moved == [ovl EXCEPT !.Aend = sesResult.lastQueryPos + ovl.Astart,
                             !.Bend = sesResult.lastTargetPos + ovl.Bstart,
                             !.EditDistance = sesResult.diffs]
    IN  [moved EXCEPT !.Score = -Max(ASpan(moved), BSpan(moved))]

\* The reverse pass up to the call of the primitive.
ReverseInput(targetSeq, ovl, ret) ==
    LET qStart == ret.Alen - ret.Astart
        qEnd == ret.Alen
        tStartFwd == IF ret.Brev THEN ret.Blen - ret.Bend ELSE ret.Bstart
        tEndFwd == IF ret.Brev THEN ret.Blen - ret.Bstart ELSE ret.Bend
    IN  [qSpan |-> qEnd - qStart,
         tSeq |-> IF ovl.Brev
                  THEN FetchTargetSubsequence_(targetSeq, tEndFwd, ret.Blen, ~ret.Brev)
                  ELSE FetchTargetSubsequence_(targetSeq, 0, tStartFwd, ~ret.Brev)]

\* An identity that leaves the differences out.
IdentityIgnoringDiffs(span, editDistance) == <<100 * span, Max(span, 1)>>

\* 100.0f * ((span != 0) ? ((span - EditDistance) / span) : -2.0f), as an exact
\* rational.
IdentityOf(span, editDistance) ==
    IF span # 0 THEN <<100 * (span - editDistance), span>> ELSE <<100 * (-2), 1>>

\* The overlap after the reverse pass.
ReverseResult(ovl, ret, diffsRight, sesResult) ==
    LET moved == [ret EXCEPT !.Astart = ovl.Astart - sesResult.lastQueryPos,
                             !.Bstart = ovl.Bstart - sesResult.lastTargetPos,
                             !.EditDistance = diffsRight + sesResult.diffs]
        span == Max(ASpan(moved), BSpan(moved))
    IN  [moved EXCEPT !.Score = -Max(ASpan(moved), BSpan(moved)),
                      !.Identity = IdentityOf(span, moved.EditDistance)]

\* The pairs of results the primitive may give to the two passes of
\* AlignOverlap_ (NoSES for a pass that is not reached).
SESRuns(targetSeq, ovl, cornersOnly) ==
    LET fin == ForwardInput(targetSeq, ovl)
    IN  IF fin.tseq.err THEN {[fwd |-> NoSES, rev |-> NoSES]}
        ELSE UNION {
            LET rin == ReverseInput(targetSeq, ovl, ForwardResult(ovl, fwd))
            IN  IF rin.tSeq.err THEN {[fwd |-> fwd, rev |-> NoSES]}
                ELSE {[fwd |-> fwd, rev |-> rev] :
                         rev \in SESResults(rin.qSpan, rin.tSeq.size, cornersOnly)}
            : fwd \in SESResults(fin.qSpan, fin.tseq.size, cornersOnly)}

\* AlignOverlap_ for a non-null overlap, given the results of the primitive:
\* an error of FetchTargetSubsequence_, or the new overlap.
AlignOverlap_(targetSeq, ovl, ses) ==
    LET fin == ForwardInput(targetSeq, ovl)
        ret == ForwardResult(ovl, ses.fwd)
        rin == ReverseInput(targetSeq, ovl, ret)
    IN  IF fin.tseq.err THEN [err |-> TRUE, sesCalls |-> 0]
        ELSE IF rin.tSeq.err THEN [err |-> TRUE, sesCalls |-> 1]
        ELSE [err |-> FALSE, sesCalls |-> 2,
              ovl |-> ReverseResult(ovl, ret, ses.fwd.diffs, ses.rev)]

(***************************************************************************)
(* Mapper::AlignOverlaps_ and Mapper::Map.                                 *)
(***************************************************************************)
\* SeqDBReaderCached::GetSequence throws for an id it does not hold.
GetSequenceThrows(targets, id) == id \notin DOMAIN targets

\* The body of the loop of AlignOverlaps_ after GetSequence, given a, what
\* AlignOverlap_ returned.
AlignedOne(r, a) ==
    IF a.err
    THEN [r EXCEPT !.err = TRUE,
                   !.calls = r.calls \o <<"GetSequence">> \o [k \in 1..a.sesCalls |-> "SES"]]
    ELSE [r EXCEPT !.overlaps = Append(r.overlaps, a.ovl),
                   !.calls = r.calls \o <<"GetSequence">> \o [k \in 1..a.sesCalls |-> "SES"]]

\* The loop of AlignOverlaps_ from the i-th overlap (from 1) on; runs[i] holds
\* the results the primitive gives for the i-th overlap.  r holds the error
\* flag, the overlaps aligned so far and the calls made to the collaborators.
RECURSIVE AlignOverlapsLoop(_, _, _, _, _)
AlignOverlapsLoop(targets, ovls, runs, i, r) ==
    IF i > Len(ovls) \/ r.err THEN r
    ELSE IF GetSequenceThrows(targets, ovls[i].Bid)
    THEN [r EXCEPT !.err = TRUE, !.calls = Append(r.calls, "GetSequence")]
    ELSE CHOOSE out \in
             {AlignOverlapsLoop(targets, ovls, runs, i + 1, n) :
                 n \in {AlignedOne(r, AlignOverlap_(targets[ovls[i].Bid], ovls[i], runs[i]))}} :
             TRUE

AlignOverlaps_(targets, ovls, runs) ==
    AlignOverlapsLoop(targets, ovls, runs, 1, [err |-> FALSE, overlaps |-> <<>>, calls |-> <<>>])

\* The results of the primitive for each overlap of a list.
RECURSIVE SESRunsOfAll(_, _)
SESRunsOfAll(targets, ovls) ==
    IF Len(ovls) = 0 THEN {<<>>}
    ELSE LET first == IF GetSequenceThrows(targets, ovls[1].Bid)
                      THEN {[fwd |-> NoSES, rev |-> NoSES]}
                      ELSE SESRuns(targets[ovls[1].Bid], ovls[1], TRUE)
         IN  {<<f>> \o rest : f \in first, rest \in SESRunsOfAll(targets, Tail(ovls))}

\* The lists the tandem stage of Map may leave.
TandemStage(settings, ovls) ==
    IF ~settings.OneHitPerTarget THEN {ovls}
    ELSE IF Len(ovls) = 0 THEN {FilterTandemOverlaps_(ovls, <<>>)}
    ELSE {FilterTandemOverlaps_(ovls, sortedCopy) : sortedCopy \in TandemSortings(ovls)}

\* A Map that returns at once for a query of MinQueryLen bases too.
TooShortInclusive(settings, query) == query.len <= settings.MinQueryLen

\* Map returns at once for a query shorter than MinQueryLen.
TooShort(settings, query) == query.len < settings.MinQueryLen

\* The chaining of Map on the hits it sorted (skipSelfHits is true).
MapSortAndChain(settings, cache, query, sorted) ==
    CHOOSE out \in
        {[sortedHits |-> sortedHits, err |-> chained.err, overlaps |-> chained.overlaps] :
            sortedHits \in {sorted},
            chained \in {FormDiagonalAnchors_(sorted, query, cache, settings.ChainBandwidth,
                                              settings.MinNumSeeds, settings.MinChainSpan, TRUE,
                                              settings.SkipSymmetricOverlaps)}} : TRUE

\* Map up to the chaining: the hits collected and sorted, and the overlaps
\* chained (skipSelfHits is true).
MapChain(settings, cache, s, h, query, querySeeds, freqCutoff) ==
    CHOOSE out \in
        {IF collected.err
         THEN [err |-> TRUE, hits |-> collected.hits, overlaps |-> <<>>,
               calls |-> <<"CollectHits">>]
         ELSE CHOOSE c \in
                  {[err |-> chained.err, hits |-> chained.sortedHits,
                    overlaps |-> chained.overlaps,
                    calls |-> <<"CollectHits", "sort", "FormDiagonalAnchors_">>] :
                      chained \in {MapSortAndChain(settings, cache, query,
                                                   SortHits(collected.hits))}} : TRUE :
            collected \in {CollectHits(cache, s, h, querySeeds, <<>>, freqCutoff)}} : TRUE

\* Map from the alignment on, given the list the tandem stage left and the
\* results of the primitive.
MapAlignAndFilter(settings, targets, tandem, runs) ==
    CHOOSE out \in
        {IF aligned.err THEN [err |-> TRUE, overlaps |-> <<>>, calls |-> aligned.calls]
         ELSE [err |-> FALSE,
               overlaps |-> FilterOverlaps_(aligned.overlaps, settings.MinNumSeeds,
                                            settings.MinIdentity, settings.MinMappedLength,
                                            settings.MinQueryLen, settings.MinTargetLen),
               calls |-> aligned.calls \o <<"FilterOverlaps_">>] :
            aligned \in {AlignOverlaps_(targets, tandem, runs)}} : TRUE

\* The calls of the tandem stage.
TandemCalls(settings) ==
    IF settings.OneHitPerTarget THEN <<"FilterTandemOverlaps_">> ELSE <<>>

(***************************************************************************)
(* The mapper: its inputs, and its operations as actions.                  *)
(***************************************************************************)
MaxHits == 3

\* The targets of the mapper: three sequences and their lengths.
MapperCache ==
    MakeCache(3, <<MakeSeedsLine(0, 4), MakeSeedsLine(1, 4), MakeSeedsLine(2, 5)>>)

\* The query: sequence 1 of the same database, of 4 bases.
MapperQuery == [Id |-> 1, len |-> 4]

\* The target sequences of the same database, each known by its length.
MapperTargets ==
    [id \in 0..(Len(MapperCache.seedLines) - 1) |->
        [Id |-> id, len |-> MapperCache.seedLines[id + 1].numBases]]

\* Seed hits with 0 <= queryPos < 4 and 0 <= targetPos < numBases: on target
\* 0 on the diagonals -2, 0 and 2 and on its reverse strand, on targets 1
\* (the query itself) and 2.
HitDomain ==
    {SeedHit(0, FALSE, 0, 0, 2), SeedHit(0, FALSE, 1, 0, 1), SeedHit(0, FALSE, 2, 0, 0),
     SeedHit(0, TRUE, 2, 0, 2), SeedHit(1, FALSE, 0, 0, 0), SeedHit(1, FALSE, 2, 0, 3),
     SeedHit(2, FALSE, 1, 0, 2), SeedHit(2, FALSE, 4, 0, 3)}

ChainBandwidths == {-1, 0, 2}

MinNumSeedsSet == {0, 2}

MinChainSpans == {-2, -1, 1}

\* The chaining on its own: any list of hits.
InitChaining ==
    /\ seeds_ = <<>>
    /\ hash_ = EmptyHash
    /\ seedDBCache_ = MapperCache
    /\ indexFile = NoFile
    /\ call = NoCall
    /\ writer = NoWriter
    /\ querySeq = MapperQuery
    /\ targetSeqs = MapperTargets
    /\ hits \in SeqsUpTo(HitDomain, MaxHits)
    /\ overlaps = <<>>
    /\ map = NoMap

\* The seeds of the three targets for the runs of Map: the seeds of the query
\* (sequence 1: key 1 at 0, key 2 at 1) occur twice in target 0, two bases
\* apart, and once in target 2.
MapSeeds ==
    <<Encode(1, 0, 0, FALSE), Encode(2, 0, 1, FALSE), Encode(1, 0, 2, FALSE),
      Encode(2, 0, 3, FALSE), Encode(1, 1, 0, FALSE), Encode(2, 1, 1, FALSE),
      Encode(1, 2, 1, FALSE), Encode(2, 2, 2, FALSE)>>

MapQuerySeeds ==
    {<<Encode(1, 1, 0, FALSE), Encode(2, 1, 1, FALSE)>>, <<Encode(1, 1, 0, FALSE)>>}

MapFreqCutoffs == {0, 3}

\* The settings of the mapper (the two settings of the alignment primitive,
\* AlignmentBandwidth and AlignmentMaxD, reach the primitive alone).
MapSettings ==
    [MinQueryLen : {4, 5}, ChainBandwidth : {0, 2}, MinNumSeeds : {2}, MinChainSpan : {0},
     SkipSymmetricOverlaps : BOOLEAN, OneHitPerTarget : BOOLEAN, MinIdentity : {<<75, 1>>},
     MinMappedLength : {1}, MinTargetLen : {4, 5}]

\* A mapper and a built index, before a call of Map.
InitMap ==
    /\ seeds_ = BuildHash_(MapSeeds).seeds
    /\ hash_ = BuildHash_(MapSeeds).hash
    /\ seedDBCache_ = MapperCache
    /\ indexFile = NoFile
    /\ call = NoCall
    /\ writer = NoWriter
    /\ querySeq = MapperQuery
    /\ targetSeqs = MapperTargets
    /\ hits = <<>>
    /\ overlaps = <<>>
    /\ \E settings \in MapSettings, querySeeds \in MapQuerySeeds,
          freqCutoff \in MapFreqCutoffs :
           map = [pc |-> "ready", settings_ |-> settings, querySeeds |-> querySeeds,
                  freqCutoff |-> freqCutoff]

InitMapper == InitChaining \/ InitMap

\* The record of a finished call of Map.
MapDone(err, calls, chained, tandem, runs) ==
    [pc |-> "done", settings_ |-> map.settings_, querySeeds |-> map.querySeeds,
     freqCutoff |-> map.freqCutoff, err |-> err, calls |-> calls, chained |-> chained,
     tandem |-> tandem, runs |-> runs]

\* Mapper::Map.
CallMap ==
    /\ map.pc = "ready"
    /\ call' = [op |-> "Map"]
    /\ IF TooShort(map.settings_, querySeq)
       THEN /\ map' = MapDone(FALSE, <<>>, <<>>, <<>>, <<>>)
            /\ UNCHANGED <<hits, overlaps>>
       ELSE \E c \in {MapChain(map.settings_, seedDBCache_, seeds_, hash_, querySeq,
                               map.querySeeds, map.freqCutoff)} :
                /\ hits' = c.hits
                /\ IF c.err
                   THEN /\ map' = MapDone(TRUE, c.calls, <<>>, <<>>, <<>>)
                        /\ overlaps' = <<>>
                   ELSE \E tandem \in TandemStage(map.settings_, c.overlaps) :
                        \E runs \in SESRunsOfAll(targetSeqs, tandem) :
                        \E f \in {MapAlignAndFilter(map.settings_, targetSeqs, tandem, runs)} :
                            /\ map' = MapDone(f.err,
                                              c.calls \o TandemCalls(map.settings_) \o f.calls,
                                              c.overlaps, tandem, runs)
                            /\ overlaps' = f.overlaps
    /\ UNCHANGED <<writer, indexVars, querySeq, targetSeqs>>

\* The sort of Map, on its own.
CallSortHits ==
    /\ call.op = "none"
    /\ map.pc = "none"
    /\ hits' = SortHits(hits)
    /\ call' = [op |-> "sort", given |-> hits]
    /\ UNCHANGED <<writer, indexVars, querySeq, targetSeqs, overlaps, map>>

\* FormDiagonalAnchors_ on the sorted hits, with any arguments.
CallFormDiagonalAnchors ==
    /\ call.op = "sort"
    /\ \E chainBandwidth \in ChainBandwidths, minNumSeeds \in MinNumSeedsSet,
          minChainSpan \in MinChainSpans, skipSelfHits \in BOOLEAN,
          skipSymmetricOverlaps \in BOOLEAN :
       \E r \in {FormDiagonalAnchors_(hits, querySeq, seedDBCache_, chainBandwidth,
                                      minNumSeeds, minChainSpan, skipSelfHits,
                                      skipSymmetricOverlaps)} :
               call' = [op |-> "FormDiagonalAnchors_", chainBandwidth |-> chainBandwidth,
                        minNumSeeds |-> minNumSeeds, minChainSpan |-> minChainSpan,
                        skipSelfHits |-> skipSelfHits,
                        skipSymmetricOverlaps |-> skipSymmetricOverlaps,
                        err |-> r.err, overlaps |-> r.overlaps, made |-> r.made]
    /\ UNCHANGED <<writer, indexVars, mapperVars>>

NextMapper == CallSortHits \/ CallFormDiagonalAnchors \/ CallMap

SpecMapper == InitMapper /\ [][NextMapper]_vars

(***************************************************************************)
(* Two calls of Map at once, on two threads that share the mapper, the     *)
(* index and the target store.  A call takes a step at each stage of Map;  *)
(* hits and overlaps are its automatic variables.                          *)
(***************************************************************************)
Threads == {1, 2}

\* The queries of the two calls: sequences 1 and 2 of the database.
SharedQueries == <<MapperQuery, [Id |-> 2, len |-> 5]>>

SharedQuerySeeds ==
    <<MapQuerySeeds, {<<Encode(1, 2, 1, FALSE), Encode(2, 2, 2, FALSE)>>, <<Encode(2, 2, 2, FALSE)>>}>>

SharedSettings ==
    {settings \in MapSettings :
        settings.ChainBandwidth = 2 /\ ~settings.SkipSymmetricOverlaps /\ settings.MinTargetLen = 4}

\* The results the primitive gives in the runs of the two calls: it stops at
\* once or reaches the end of both strings, with no difference.
SharedRuns(targets, ovls) ==
    {runs \in SESRunsOfAll(targets, ovls) :
        \A i \in 1..Len(runs) : runs[i].fwd.diffs = 0 /\ runs[i].rev.diffs = 0}

\* A call of Map before its first step.
NewCall(query, querySeeds) ==
    [pc |-> "ready", query |-> query, querySeeds |-> querySeeds, hits |-> <<>>,
     overlaps |-> <<>>, tandem |-> <<>>, runs |-> <<>>, err |-> FALSE]

\* A call of Map that reads the hits of the first call for its own.
HitsOfFirst(threads, t) == threads[1].hits

\* The vector hits of the call t.
HitsOf(threads, t) == threads[t].hits

InitShared ==
    /\ seeds_ = BuildHash_(MapSeeds).seeds
    /\ hash_ = BuildHash_(MapSeeds).hash
    /\ seedDBCache_ = MapperCache
    /\ indexFile = NoFile
    /\ call = NoCall
    /\ writer = NoWriter
    /\ querySeq = NoQuery
    /\ targetSeqs = MapperTargets
    /\ hits = <<>>
    /\ overlaps = <<>>
    /\ \E settings \in SharedSettings, first \in SharedQuerySeeds[1], second \in SharedQuerySeeds[2] :
           map = [pc |-> "shared", settings_ |-> settings, freqCutoff |-> 0,
                  threads |-> <<NewCall(SharedQueries[1], first),
                                NewCall(SharedQueries[2], second)>>]

\* The call left with an error.
Thrown(th) == [th EXCEPT !.pc = "done", !.err = TRUE, !.overlaps = <<>>]

\* Map up to CollectHits.
MapCollectStep ==
    /\ map.pc = "shared"
    /\ \E t \in Threads :
           /\ map.threads[t].pc = "ready"
           /\ IF TooShort(map.settings_, map.threads[t].query)
              THEN map' = [map EXCEPT !.threads[t].pc = "done"]
              ELSE \E collected \in {CollectHits(seedDBCache_, seeds_, hash_,
                                                  map.threads[t].querySeeds, <<>>,
                                                  map.freqCutoff)} :
                       map' = [map EXCEPT !.threads[t] =
                                  IF collected.err THEN Thrown(@)
                                  ELSE [@ EXCEPT !.pc = "sort", !.hits = collected.hits]]
    /\ UNCHANGED <<writer, indexVars, call, querySeq, targetSeqs, hits, overlaps>>

\* The sort of the hits.
MapSortStep ==
    /\ map.pc = "shared"
    /\ \E t \in Threads :
           /\ map.threads[t].pc = "sort"
           /\ \E sorted \in {SortHits(HitsOf(map.threads, t))} :
                  map' = [map EXCEPT !.threads[t].pc = "chain", !.threads[t].hits = sorted]
    /\ UNCHANGED <<writer, indexVars, call, querySeq, targetSeqs, hits, overlaps>>

\* FormDiagonalAnchors_.
MapChainStep ==
    /\ map.pc = "shared"
    /\ \E t \in Threads :
           /\ map.threads[t].pc = "chain"
           /\ \E chained \in {FormDiagonalAnchors_(HitsOf(map.threads, t), map.threads[t].query,
                                                    seedDBCache_, map.settings_.ChainBandwidth,
                                                    map.settings_.MinNumSeeds,
                                                    map.settings_.MinChainSpan, TRUE,
                                                    map.settings_.SkipSymmetricOverlaps)} :
                  map' = [map EXCEPT !.threads[t] =
                             IF chained.err THEN Thrown(@)
                             ELSE [@ EXCEPT !.pc = "tandem", !.overlaps = chained.overlaps]]
    /\ UNCHANGED <<writer, indexVars, call, querySeq, targetSeqs, hits, overlaps>>

\* FilterTandemOverlaps_, with OneHitPerTarget.
MapTandemStep ==
    /\ map.pc = "shared"
    /\ \E t \in Threads :
           /\ map.threads[t].pc = "tandem"
           /\ \E tandem \in TandemStage(map.settings_, map.threads[t].overlaps) :
                  map' = [map EXCEPT !.threads[t].pc = "align", !.threads[t].overlaps = tandem,
                                     !.threads[t].tandem = tandem]
    /\ UNCHANGED <<writer, indexVars, call, querySeq, targetSeqs, hits, overlaps>>

\* AlignOverlaps_.
MapAlignStep ==
    /\ map.pc = "shared"
    /\ \E t \in Threads :
           /\ map.threads[t].pc = "align"
           /\ \E runs \in SharedRuns(targetSeqs, map.threads[t].overlaps) :
              \E aligned \in {AlignOverlaps_(targetSeqs, map.threads[t].overlaps, runs)} :
                  map' = [map EXCEPT !.threads[t] =
                             IF aligned.err THEN [Thrown(@) EXCEPT !.runs = runs]
                             ELSE [@ EXCEPT !.pc = "filter", !.overlaps = aligned.overlaps,
                                            !.runs = runs]]
    /\ UNCHANGED <<writer, indexVars, call, querySeq, targetSeqs, hits, overlaps>>

\* FilterOverlaps_, and the return.
MapFilterStep ==
    /\ map.pc = "shared"
    /\ \E t \in Threads :
           /\ map.threads[t].pc = "filter"
           /\ map' = [map EXCEPT !.threads[t].pc = "done",
                                 !.threads[t].overlaps =
                                     FilterOverlaps_(@, map.settings_.MinNumSeeds,
                                                     map.settings_.MinIdentity,
                                                     map.settings_.MinMappedLength,
                                                     map.settings_.MinQueryLen,
                                                     map.settings_.MinTargetLen)]
    /\ UNCHANGED <<writer, indexVars, call, querySeq, targetSeqs, hits, overlaps>>

NextShared == MapCollectStep \/ MapSortStep \/ MapChainStep \/ MapTandemStep \/ MapAlignStep \/ MapFilterStep

SpecShared == InitShared /\ [][NextShared]_vars

(***************************************************************************)
(* The two filters on their own.                                           *)
(***************************************************************************)
MaxOverlaps == 3

\* An overlap of the query (sequence 1 of 4 bases) as the aligner leaves it.
Ovl(Bid, Astart, Aend, Bstart, Bend, Blen, identity, numSeeds) ==
    createOverlap(1, Bid, -Max(Aend - Astart, Bend - Bstart), <<identity, 1>>, 0, Astart,
                  Aend, 4, FALSE, Bstart, Bend, Blen, 0, numSeeds)

\* Three overlaps with target 0, two of them of the same length 3, and two with
\* target 2.
OverlapDomain ==
    {Ovl(0, 0, 3, 0, 2, 4, 90, 2), Ovl(0, 1, 2, 0, 3, 4, 99, 3), Ovl(0, 0, 1, 1, 2, 4, 99, 1),
     Ovl(2, 0, 4, 1, 5, 5, 80, 2), Ovl(2, 2, 3, 2, 3, 5, 100, 3)}

FilterArgs ==
    [minNumSeeds : {2, 3}, minIdentity : {<<0, 1>>, <<95, 1>>}, minMappedSpan : {1, 3},
     minQueryLen : {4, 5}, minTargetLen : {4, 5}]

InitFilter ==
    /\ seeds_ = <<>>
    /\ hash_ = EmptyHash
    /\ seedDBCache_ = MapperCache
    /\ indexFile = NoFile
    /\ call = NoCall
    /\ writer = NoWriter
    /\ querySeq = MapperQuery
    /\ targetSeqs = MapperTargets
    /\ hits = <<>>
    /\ overlaps \in SeqsUpTo(OverlapDomain, MaxOverlaps)
    /\ map = NoMap

CallFilterOverlaps ==
    /\ call.op = "none"
    /\ \E a \in FilterArgs :
           call' = [op |-> "FilterOverlaps_", args |-> a,
                    ret |-> FilterOverlaps_(overlaps, a.minNumSeeds, a.minIdentity,
                                            a.minMappedSpan, a.minQueryLen, a.minTargetLen)]
    /\ UNCHANGED <<writer, indexVars, mapperVars>>

CallFilterTandemOverlaps ==
    /\ call.op = "none"
    /\ \/ /\ Len(overlaps) = 0
          /\ call' = [op |-> "FilterTandemOverlaps_",
                      ret |-> FilterTandemOverlaps_(overlaps, <<>>)]
       \/ \E sortedCopy \in TandemSortings(overlaps) :
              /\ Len(overlaps) > 0
              /\ call' = [op |-> "FilterTandemOverlaps_",
                          ret |-> FilterTandemOverlaps_(overlaps, sortedCopy)]
    /\ UNCHANGED <<writer, indexVars, mapperVars>>

NextFilter == CallFilterOverlaps \/ CallFilterTandemOverlaps

SpecFilter == InitFilter /\ [][NextFilter]_vars


(***************************************************************************)
(* AlignOverlap_ on its own: one overlap of the query with target 0.       *)
(***************************************************************************)
\* An overlap as the chaining leaves it, with 0 <= Astart <= Alen and
\* 0 <= Bstart <= Blen.
Chained(Astart, Bstart, Brev, Blen) ==
    createOverlap(1, 0, -2, <<0, 1>>, FALSE, Astart, Min(Astart + 1, 4), 4, Brev, Bstart,
                  Min(Bstart + 1, Blen), Blen, -1, 2)

\* Blen is the length of target 0 (4 bases) or one base more.
AlignInputs ==
    {Chained(Astart, Bstart, Brev, Blen) :
        Astart \in {0, 2, 4}, Bstart \in {0, 1, 4}, Brev \in BOOLEAN, Blen \in {4, 5}}

InitAlign ==
    /\ seeds_ = <<>>
    /\ hash_ = EmptyHash
    /\ seedDBCache_ = MapperCache
    /\ indexFile = NoFile
    /\ call = NoCall
    /\ writer = NoWriter
    /\ querySeq = MapperQuery
    /\ targetSeqs = MapperTargets
    /\ hits = <<>>
    /\ \E ovl \in AlignInputs : overlaps = <<ovl>>
    /\ map = NoMap

CallAlignOverlap ==
    /\ call.op = "none"
    /\ \E ses \in SESRuns(targetSeqs[overlaps[1].Bid], overlaps[1], FALSE) :
           call' = [op |-> "AlignOverlap_", ses |-> ses,
                    ret |-> AlignOverlap_(targetSeqs[overlaps[1].Bid], overlaps[1], ses)]
    /\ UNCHANGED <<writer, indexVars, mapperVars>>

NextAlign == CallAlignOverlap

SpecAlign == InitAlign /\ [][NextAlign]_vars

(***************************************************************************)
(* FetchTargetSubsequence_ on its own: one target, any range around it.    *)
(***************************************************************************)
MaxFetchLen == 3

\* A target store of one sequence of 0..MaxFetchLen bases.
FetchTargets == {[id \in {0} |-> [Id |-> 0, len |-> n]] : n \in 0..MaxFetchLen}

\* The positions asked for: one base before the sequence to one after its end.
FetchPositions(targetSeq) == (-1)..(targetSeq.len + 1)

InitFetch ==
    /\ seeds_ = <<>>
    /\ hash_ = EmptyHash
    /\ seedDBCache_ = MapperCache
    /\ indexFile = NoFile
    /\ call = NoCall
    /\ writer = NoWriter
    /\ querySeq = NoQuery
    /\ targetSeqs \in FetchTargets
    /\ hits = <<>>
    /\ overlaps = <<>>
    /\ map = NoMap

CallFetchTargetSubsequence ==
    /\ \E seqStart \in FetchPositions(targetSeqs[0]), seqEnd \in FetchPositions(targetSeqs[0]), revCmp \in BOOLEAN :
           call' = [op |-> "FetchTargetSubsequence_", seqStart |-> seqStart, seqEnd |-> seqEnd,
                    revCmp |-> revCmp,
                    ret |-> FetchTargetSubsequence_(targetSeqs[0], seqStart, seqEnd, revCmp)]
    /\ UNCHANGED <<writer, indexVars, mapperVars>>

NextFetch == CallFetchTargetSubsequence

SpecFetch == InitFetch /\ [][NextFetch]_vars

(***************************************************************************)
(* The index cache: the texts loaded, and its operations as actions.       *)
(***************************************************************************)
MaxSeedLines == 2

\* The caches the texts are written from: an index of one file, with KmerSize
\* the default or 5, one to MaxSeedLines sequences and at most one block.
FileLineOf(numSequences) ==
    [fileId |-> 0, filename |-> <<"db", ".", "0", ".", "seeds">>,
     numSequences |-> numSequences, numBytes |-> 16 * numSequences]

SeedsLineOf(seqId) ==
    [seqId |-> seqId, header |-> <<"read", "-">> \o DecimalOf(seqId), fileId |-> 0,
     fileOffset |-> 16 * seqId, numBytes |-> 16, numBases |-> 12, numSeeds |-> 1]

BlockLineOf(numSequences) ==
    [blockId |-> 0, startSeqId |-> 0, endSeqId |-> numSequences,
     numBytes |-> 16 * numSequences]

WrittenCaches ==
    {[indexFilename |-> <<"db", ".", "seeddb">>, version |-> <<"0.1.0">>,
      seedParams |-> [DefaultSeedDBParameters EXCEPT !.KmerSize = k, !.MinimizerWindow = 8],
      fileLines |-> IF withFile THEN <<FileLineOf(n)>> ELSE <<>>,
      seedLines |-> [i \in 1..n |-> SeedsLineOf(i - 1)],
      blockLines |-> IF withBlock THEN <<BlockLineOf(n)>> ELSE <<>>] :
        k \in {5, DefaultKmerSize}, n \in 1..MaxSeedLines, withFile \in BOOLEAN,
        withBlock \in BOOLEAN}

\* The texts operator<< writes.
CanonicalTexts == {EmitCache(c) : c \in WrittenCaches}

\* Other ways to write the P record: after a space, right after the "P", with
\* an unknown parameter, with the parameters in another order, with an entry
\* that is no name=value, and an empty one.
ParamsLines ==
    {<<"P", " ", "k", "=", "5", ",", "w", "=", "8">>,
     <<"P", "k", "=", "5", ",", "w", "=", "8">>,
     <<"P", "\t", "x", "=", "1", ",", "k", "=", "5">>,
     <<"P", "\t", "rc", "=", "0", ",", "hpc", "=", "1", ",", "k", "=", "5">>,
     <<"P", "\t", "k", "=", "5", ",", "w">>,
     <<"P", "\t", "k", "=", "x">>,
     <<"P">>}

\* Texts that are not as written: another P record, spaces for tabs, a blank
\* line, no S record, a sequence id out of order, any S record with another
\* sequence id, short or non-numeric records.
\* The lines of a text that hold an S record.
SRecordsAt(text) == {i \in 1..Len(text) : Len(text[i]) > 0 /\ text[i][1] = "S"}

\* The text with the sequence id of the S record of line i written as d.
WithSeqId(text, i, d) == [text EXCEPT ![i] = [@ EXCEPT ![3] = d]]

WithSpaces(line) == [i \in 1..Len(line) |-> IF line[i] = "\t" THEN " " ELSE line[i]]

OtherTexts ==
    {[c EXCEPT ![2] = p] : c \in CanonicalTexts, p \in ParamsLines}
        \cup {[i \in 1..Len(c) |-> WithSpaces(c[i])] : c \in CanonicalTexts}
        \cup {<<c[1], <<>>>> \o Tail(c) : c \in CanonicalTexts}
        \cup {<<c[1], c[2]>> : c \in CanonicalTexts}
        \cup {<<c[1], c[2], <<"S", "\t", "1", "\t", "read", "\t", "0", "\t", "0", "\t", "1",
                               "\t", "1", "\t", "1">>>> : c \in CanonicalTexts}
        \cup UNION {{WithSeqId(c, i, d) : i \in SRecordsAt(c), d \in {"0", "1", "2"}} :
                       c \in CanonicalTexts}
        \cup {c \o <<<<"F", "\t", "1">>>> : c \in CanonicalTexts}
        \cup {c \o <<<<"B", "\t", "1", "\t", "x", "\t", "2", "\t", "3">>>> : c \in CanonicalTexts}
        \cup {c \o <<<<"S", "\t", "x">>>> : c \in CanonicalTexts}
        \cup {c \o <<<<"X", "\t", "1">>>> : c \in CanonicalTexts}

IndexTexts == CanonicalTexts \cup OtherTexts

\* What the variable token of the stream loader may hold before it is set.
Tokens == {"V", "P", "F", "S", "B", "X"}

InitCache ==
    /\ seeds_ = <<>>
    /\ hash_ = EmptyHash
    /\ seedDBCache_ = EmptyCache(<<>>)
    /\ indexFile \in IndexTexts
    /\ call = NoCall
    /\ writer = NoWriter
    /\ querySeq = NoQuery
    /\ targetSeqs = NoTargets
    /\ hits = <<>>
    /\ overlaps = <<>>
    /\ map = NoMap

\* The record of a load: round 1 loads the text given, round 2 the text
\* written from the cache of round 1, which "first" keeps.
Loaded(loader, r) ==
    [op |-> "load", loader |-> loader, err |-> r.err,
     round |-> IF call.op = "none" THEN 1 ELSE 2,
     text |-> IF call.op = "none" THEN indexFile ELSE call.text,
     first |-> IF call.op = "none" THEN r.cache ELSE call.first,
     loaders |-> IF call.op = "none" THEN <<loader>> ELSE Append(call.loaders, loader),
     opened |-> TRUE]

\* LoadSeedDBIndexCache(FILE*, indexFilename) on the text of the file.
CallLoadFile ==
    /\ call.op \in {"none", "emit"}
    /\ \E r \in {LoadSeedDBIndexCacheFile(indexFile, <<"db", ".", "seeddb">>)} :
           /\ call' = Loaded("FILE", r)
           /\ seedDBCache_' = IF r.err THEN seedDBCache_ ELSE r.cache
    /\ UNCHANGED <<writer, seeds_, hash_, indexFile, mapperVars>>

\* The names a file is asked by: the name of the index file, and the name of
\* no file.
IndexFilenames == {<<"db", ".", "seeddb">>, <<"none", ".", "seeddb">>}

\* LoadSeedDBIndexCache(indexFilename); the one file is db.seeddb.
CallLoadByName ==
    /\ call.op \in {"none", "emit"}
    /\ \E indexFilename \in IndexFilenames :
       \E r \in {LoadSeedDBIndexCacheByName(<<"db", ".", "seeddb">> :> indexFile, indexFilename)} :
           /\ call' = [Loaded("name", r) EXCEPT !.opened = indexFilename = <<"db", ".", "seeddb">>]
           /\ seedDBCache_' = IF r.err THEN seedDBCache_ ELSE r.cache
    /\ UNCHANGED <<writer, seeds_, hash_, indexFile, mapperVars>>

\* LoadSeedDBIndexCache(std::istream&, indexFilename) on the text of the file.
CallLoadStream ==
    /\ call.op \in {"none", "emit"}
    /\ \E token \in Tokens :
       \E r \in {LoadSeedDBIndexCacheStream(indexFile, <<"db", ".", "seeddb">>, token)} :
           /\ call' = Loaded("stream", r)
           /\ seedDBCache_' = IF r.err THEN seedDBCache_ ELSE r.cache
    /\ UNCHANGED <<writer, seeds_, hash_, indexFile, mapperVars>>

\* operator<< of the cache a load returned, into the file.
CallEmit ==
    /\ call.op = "load"
    /\ call.round = 1
    /\ ~call.err
    /\ indexFile' = EmitCache(seedDBCache_)
    /\ call' = [call EXCEPT !.op = "emit"]
    /\ UNCHANGED <<writer, seeds_, hash_, seedDBCache_, mapperVars>>

\* The ordinals asked for: from one below the tables to one above them.
Ordinals == (-1)..(MaxSeedLines + 1)

\* The record of a call of an accessor on the cache a load returned.
Got(op, id, throws, line) ==
    [op |-> op, id |-> id, err |-> throws, ret |-> IF throws THEN <<>> ELSE <<line>>,
     cache |-> seedDBCache_]

CallGetSeedsLine ==
    /\ call.op = "load"
    /\ ~call.err
    /\ \E seqId \in Ordinals :
           call' = IF GetSeedsLineThrows(seedDBCache_, seqId)
                   THEN Got("GetSeedsLine", seqId, TRUE, <<>>)
                   ELSE Got("GetSeedsLine", seqId, FALSE, GetSeedsLine(seedDBCache_, seqId))
    /\ UNCHANGED <<writer, indexVars, mapperVars>>

CallGetBlockLine ==
    /\ call.op = "load"
    /\ ~call.err
    /\ \E blockId \in Ordinals :
           call' = IF GetBlockLineThrows(seedDBCache_, blockId)
                   THEN Got("GetBlockLine", blockId, TRUE, <<>>)
                   ELSE Got("GetBlockLine", blockId, FALSE, GetBlockLine(seedDBCache_, blockId))
    /\ UNCHANGED <<writer, indexVars, mapperVars>>

CallGetFileLine ==
    /\ call.op = "load"
    /\ ~call.err
    /\ \E fileId \in Ordinals :
           call' = IF GetFileLineThrows(seedDBCache_, fileId)
                   THEN Got("GetFileLine", fileId, TRUE, <<>>)
                   ELSE Got("GetFileLine", fileId, FALSE, GetFileLine(seedDBCache_, fileId))
    /\ UNCHANGED <<writer, indexVars, mapperVars>>

NextCache == CallLoadFile \/ CallLoadByName \/ CallLoadStream \/ CallEmit \/ CallGetSeedsLine \/ CallGetBlockLine \/ CallGetFileLine

SpecCache == InitCache /\ [][NextCache]_vars

(***************************************************************************)
(* SeqDBWriterCompressed.  A byte of a sequence file is known by the       *)
(* sequence it is of and its place in it, <<seqId, k>>.  The base counts   *)
(* and the ranges of a sequence, which AddSequence stores and never reads, *)
(* are left out, and so is the text WriteIndex writes.                     *)
(***************************************************************************)
MaxAdded == 3

MaxSeqLen == 2

\* The file line OpenNewSequenceFile_ registers.
NewFileLine(fileId) ==
    [fileId |-> fileId, filename |-> <<"db", ".seqdb.">> \o DecimalOf(fileId) \o <<".seq">>,
     numSequences |-> 0, numBytes |-> 0]

\* OpenNewSequenceFile_: the new file line, and its file, empty, open for writing.
OpenNewSequenceFile_(w) ==
    [w EXCEPT !.fileLines_ = Append(@, NewFileLine(Len(@))),
              !.fpOutSeqs_ = {Len(w.fileLines_)},
              !.files = Append(@, <<>>)]

\* seqBuffer_.reserve(flushSize) throws std::length_error for a negative
\* flushSize, which is above max_size() as a size_t.
ReserveThrows(flushSize) == flushSize < 0

\* The writer the constructor leaves, for a flushSize it does not throw for.
SeqDBWriterCompressed(useCompression, flushSize, fileBlockSize) ==
    [OpenNewSequenceFile_([pc |-> "open", useCompression_ |-> useCompression,
                           flushSizeBytes_ |-> flushSize, fileBlockSize_ |-> fileBlockSize,
                           seqBuffer_ |-> <<>>, seqLines_ |-> <<>>, fileLines_ |-> <<>>,
                           totalOutSeqs_ |-> 0, totalOutBytes_ |-> 0, fpOutSeqs_ |-> {},
                           fpOutIndex_ |-> FALSE, files |-> <<>>])
        EXCEPT !.fpOutIndex_ = TRUE]

\* WriteSequences throws when no sequence file is open.
WriteSequencesThrows(w) == w.fpOutSeqs_ = {}

\* FlushSequenceBuffer with a sequence file open: the buffer is written at
\* the end of the open file and cleared.
FlushSequenceBuffer(w) ==
    LET f == CHOOSE x \in w.fpOutSeqs_ : TRUE
    IN  [w EXCEPT !.files[f + 1] = @ \o w.seqBuffer_, !.seqBuffer_ = <<>>]

\* A test of the file boundary that leaves out "numBytes > 0".
AtFileBoundaryOrEmpty(back, fileBlockSize) == back.numBytes >= fileBlockSize

\* The last file has reached the size of a block.
AtFileBoundary(back, fileBlockSize) == back.numBytes >= fileBlockSize /\ back.numBytes > 0

\* The size of the bytes AddSequence adds for seq: seq.size(), or with
\* compression the size of CompressedSequence(seq).GetTwobit(), of which the
\* model knows that it is not above seq.size().
NumBytesOf(useCompression, seq) == IF useCompression THEN 0..Len(seq) ELSE {Len(seq)}

\* The bytes of the sequence seqId.
BytesOf(seqId, numBytes) == [k \in 1..numBytes |-> <<seqId, k>>]

\* The registry of AddSequence: the bytes in the buffer, the new sequence
\* line, the counts of the last file and the global counts.
RegisterSequence(w, header, seq, numBytes) ==
    LET back == w.fileLines_[Len(w.fileLines_)]
        sl == [seqId |-> Len(w.seqLines_), header |-> header, numBytes |-> numBytes,
               numBases |-> Len(seq), fileId |-> back.fileId, fileOffset |-> back.numBytes]
    IN  [w EXCEPT !.seqBuffer_ = @ \o BytesOf(sl.seqId, numBytes),
                  !.seqLines_ = Append(@, sl),
                  !.fileLines_[Len(w.fileLines_)] =
                      [back EXCEPT !.numBytes = @ + numBytes, !.numSequences = @ + 1],
                  !.totalOutSeqs_ = @ + 1,
                  !.totalOutBytes_ = @ + numBytes]

\* The flush at the end of AddSequence: [err, w].
FlushIfFull(w) ==
    IF Len(w.seqBuffer_) > w.flushSizeBytes_
    THEN IF WriteSequencesThrows(w) THEN [err |-> TRUE, w |-> w]
         ELSE [err |-> FALSE, w |-> FlushSequenceBuffer(w)]
    ELSE [err |-> FALSE, w |-> w]

\* AddSequence, numBytes being the size of the bytes it adds: [err, w], err
\* when it throws, w the writer it leaves.
AddSequence(w, header, seq, numBytes) ==
    IF Len(w.fileLines_) = 0 THEN [err |-> TRUE, w |-> w]
    ELSE IF AtFileBoundary(w.fileLines_[Len(w.fileLines_)], w.fileBlockSize_)
    THEN IF WriteSequencesThrows(w) THEN [err |-> TRUE, w |-> w]
         ELSE CHOOSE out \in
                  {FlushIfFull(RegisterSequence(o, header, seq, numBytes)) :
                      o \in {OpenNewSequenceFile_(FlushSequenceBuffer(w))}} : TRUE
    ELSE FlushIfFull(RegisterSequence(w, header, seq, numBytes))

\* CloseFiles.
CloseFiles(w) == [w EXCEPT !.fpOutIndex_ = FALSE, !.fpOutSeqs_ = {}]

(***************************************************************************)
(* The writer: its inputs, and its operations as actions.                  *)
(***************************************************************************)
FlushSizes == {-1, 0, 2}

FileBlockSizes == {-1, 2, 3}

\* The sequences added: 0..MaxSeqLen bases.
AddedSeqs == {[k \in 1..n |-> "A"] : n \in 0..MaxSeqLen}

InitWriter ==
    /\ seeds_ = <<>>
    /\ hash_ = EmptyHash
    /\ seedDBCache_ = MapperCache
    /\ indexFile = NoFile
    /\ call = NoCall
    /\ writer = NoWriter
    /\ querySeq = NoQuery
    /\ targetSeqs = NoTargets
    /\ hits = <<>>
    /\ overlaps = <<>>
    /\ map = NoMap

\* The constructor.
SeqDBWriterCompressedCtor ==
    /\ writer.pc = "none"
    /\ \E useCompression \in BOOLEAN, flushSize \in FlushSizes, fileBlockSize \in FileBlockSizes :
           /\ call' = [op |-> "SeqDBWriterCompressed", useCompression |-> useCompression,
                       flushSize |-> flushSize, fileBlockSize |-> fileBlockSize,
                       err |-> ReserveThrows(flushSize)]
           /\ writer' = IF ReserveThrows(flushSize) THEN writer
                        ELSE SeqDBWriterCompressed(useCompression, flushSize, fileBlockSize)
    /\ UNCHANGED <<indexVars, mapperVars>>

\* AddSequence with any sequence.
CallAddSequence ==
    /\ writer.pc = "open"
    /\ Len(writer.seqLines_) < MaxAdded
    /\ \E seq \in AddedSeqs :
       \E numBytes \in NumBytesOf(writer.useCompression_, seq) :
       \E r \in {AddSequence(writer, <<"read">>, seq, numBytes)} :
           /\ call' = [op |-> "AddSequence", seq |-> seq, numBytes |-> numBytes, err |-> r.err]
           /\ writer' = r.w
    /\ UNCHANGED <<indexVars, mapperVars>>

\* FlushSequenceBuffer, called by the owner of the writer.
CallFlushSequenceBuffer ==
    /\ writer.pc = "open"
    /\ call' = [op |-> "FlushSequenceBuffer", err |-> WriteSequencesThrows(writer)]
    /\ writer' = IF WriteSequencesThrows(writer) THEN writer ELSE FlushSequenceBuffer(writer)
    /\ UNCHANGED <<indexVars, mapperVars>>

\* CloseFiles.
CallCloseFiles ==
    /\ writer.pc = "open"
    /\ call' = [op |-> "CloseFiles", err |-> FALSE]
    /\ writer' = CloseFiles(writer)
    /\ UNCHANGED <<indexVars, mapperVars>>

NextWriter == SeqDBWriterCompressedCtor \/ CallAddSequence \/ CallFlushSequenceBuffer \/ CallCloseFiles

SpecWriter == InitWriter /\ [][NextWriter]_vars

(***************************************************************************)
(* Properties of the seed index.                                           *)
(***************************************************************************)
RECURSIVE SumSeq(_)
SumSeq(s) == IF Len(s) = 0 THEN 0 ELSE s[1] + SumSeq(Tail(s))

\* How often x occurs in the sequence s.
Occurrences(s, x) == Cardinality({i \in 1..Len(s) : s[i] = x})

\* The seeds of s with key k, in the order of s.
WithKey(s, k) ==
    LET HasKey(x) == DecodeKey(x) = k
    IN  SelectSeq(s, HasKey)

\* Every hash entry is a maximal non-empty run of one key in the sorted array.
HashEntriesAreRuns ==
    \A k \in DOMAIN hash_ :
        LET start == hash_[k][1]
            end == hash_[k][2]
        IN  /\ 0 <= start /\ start < end /\ end <= Len(seeds_)
            /\ \A i \in start..(end - 1) : DecodeKey(seeds_[i + 1]) = k
            /\ start > 0 => DecodeKey(seeds_[start]) # k
            /\ end < Len(seeds_) => DecodeKey(seeds_[end + 1]) # k

\* C1: after construction from the array S, GetSeeds(k) returns exactly the
\* seeds of S with key k (each as often as S holds it), its return value is
\* their number, a key not in S gives the empty list and 0, and every hash
\* entry <<start, end>> is a maximal run of one key with
\* 0 <= start < end <= len(seeds).
C1_GetSeedsExact ==
    /\ call.op # "none" => HashEntriesAreRuns
    /\ call.op = "GetSeeds" =>
           /\ \A i \in 1..Len(call.seeds) : DecodeKey(call.seeds[i]) = call.key
           /\ call.ret = Len(call.seeds)
           /\ call.ret = Len(WithKey(call.given, call.key))
           /\ \A x \in Range(call.given) :
                  DecodeKey(x) = call.key
                      => Occurrences(call.seeds, x) = Occurrences(call.given, x)
           /\ (\A i \in 1..Len(call.given) : DecodeKey(call.given[i]) # call.key)
                  => call.seeds = <<>> /\ call.ret = 0

\* A lookup of a key held by two seeds of an array that also holds another key.
C1_Witness ==
    /\ call.op = "GetSeeds"
    /\ call.ret = 2
    /\ \E i \in 1..Len(call.given) : DecodeKey(call.given[i]) # call.key

\* The number of target seeds with the key of the query seed q.
BucketSize(q) == Len(WithKey(call.given, DecodeKey(q)))

\* The number of hits the query seed q is to give under the cutoff f.
HitsDue(q, f) ==
    IF f > 0 /\ BucketSize(q) > f THEN 0 ELSE BucketSize(q)

\* The number of hits due to the first n query seeds.
HitsDueBefore(n) ==
    SumSeq([j \in 1..n |-> HitsDue(call.querySeeds[j], call.freqCutoff)])

\* C7: CollectHits clears the list it is given; the result holds, for each
\* query seed in order, as many hits as the index has seeds of its key, unless
\* freqCutoff > 0 and the bucket is larger than freqCutoff, when it holds none
\* for that seed; a seed whose key is absent gives none, and freqCutoff = 0
\* skips no bucket.
C7_CollectHitsCounts ==
    call.op = "CollectHits" =>
        /\ ~call.err
        /\ Len(call.hits) = HitsDueBefore(Len(call.querySeeds))
        /\ call.ret = (Len(call.hits) > 0)
        /\ \A j \in 1..Len(call.querySeeds) :
               /\ HitsDueBefore(j) - HitsDueBefore(j - 1)
                      = IF call.freqCutoff = 0 \/ BucketSize(call.querySeeds[j]) <= call.freqCutoff
                        THEN BucketSize(call.querySeeds[j])
                        ELSE 0
               /\ \A i \in (HitsDueBefore(j - 1) + 1)..HitsDueBefore(j) :
                      call.hits[i].queryPos = Seed(call.querySeeds[j]).pos

\* A call on a list that held a stale hit, under freqCutoff = 1: the first
\* query seed's bucket of two is skipped, the second's bucket of one is emitted.
C7_Witness ==
    /\ call.op = "CollectHits"
    /\ call.prior # <<>>
    /\ call.freqCutoff = 1
    /\ Len(call.querySeeds) = 2
    /\ BucketSize(call.querySeeds[1]) = 2
    /\ BucketSize(call.querySeeds[2]) = 1
    /\ Len(call.hits) = 1

\* The hit due to the query seed q and the target seed t of the same key.
HitDue(q, t) ==
    LET sl == seedDBCache_.seedLines[t.seqID + 1]
    IN  IF q.rev = t.rev
        THEN SeedHit(t.seqID, FALSE, t.pos, 0, q.pos)
        ELSE SeedHit(t.seqID, TRUE,
                     sl.numBases - (t.pos + seedDBCache_.seedParams.KmerSize), 0, q.pos)

\* C8: the hit emitted for a query seed q and a target seed t has
\* targetId = t.seqId and queryPos = q.pos; on the same strand targetRev is
\* false and targetPos = t.pos, on different strands targetRev is true and
\* targetPos = numBases(t.seqId) - (t.pos + kmerSize).
C8_HitFields ==
    call.op = "CollectHits" =>
        \A j \in 1..Len(call.querySeeds) :
            LET q == call.querySeeds[j]
                targets == WithKey(seeds_, DecodeKey(q))
            IN  HitsDue(q, call.freqCutoff) > 0 =>
                    \A i \in 1..Len(targets) :
                        call.hits[HitsDueBefore(j - 1) + i] = HitDue(Seed(q), Seed(targets[i]))

\* A hit on the opposite strand, reflected, next to one on the same strand.
C8_Witness ==
    /\ call.op = "CollectHits"
    /\ \E i, j \in 1..Len(call.hits) :
           /\ call.hits[i].targetRev /\ call.hits[i].targetPos = 7 - (4 + 3)
           /\ ~call.hits[j].targetRev

\* The keys of the seeds of s.
KeysOf(s) == {DecodeKey(s[i]) : i \in 1..Len(s)}

\* The bucket sizes of the keys of s in ascending order.
AscendingBucketSizes(s) ==
    CHOOSE sizes \in [1..Cardinality(KeysOf(s)) -> 1..Len(s)] :
        /\ \A i \in 1..(Len(sizes) - 1) : sizes[i] <= sizes[i + 1]
        /\ \A v \in 1..Len(s) :
               Cardinality({i \in 1..Len(sizes) : sizes[i] = v})
                   = Cardinality({k \in KeysOf(s) : Len(WithKey(s, k)) = v})

\* The statistics C16 states for the cutoff p over the N >= 1 bucket sizes.
StatsAsStated(ret, sizes, p) ==
    LET N == Len(sizes)
        rank == (N * (p[2] - p[1])) \div p[2]
    IN  /\ ~ret.err
        /\ ~ret.crash
        /\ rank < N
        /\ ret.retFreqCutoff = sizes[rank + 1]
        /\ ret.retFreqMax = sizes[N]
        /\ ret.retFreqMedian[1] * 2
               = (sizes[(N \div 2) + 1] + sizes[((N - 1) \div 2) + 1]) * ret.retFreqMedian[2]

\* What C16 states of a call with the cutoff p on the index of the seeds given.
FrequencyStatsAsStated(ret, given, p) ==
    /\ (p[1] < 0 \/ p[1] > p[2]) => ret.err
    /\ (0 <= p[1] /\ p[1] <= p[2] /\ Len(given) = 0) =>
           /\ ~ret.err
           /\ ~ret.crash
           /\ ret.retFreqMax = 0 /\ ret.retFreqCutoff = 0
           /\ ret.retFreqAvg[1] = 0 /\ ret.retFreqMedian[1] = 0
    /\ (0 <= p[1] /\ p[1] <= p[2] /\ Len(given) > 0) =>
           StatsAsStated(ret, AscendingBucketSizes(given), p)

\* C16: for percentileCutoff in [0, 1], both ends included, and N >= 1 keys,
\* ComputeFrequencyStats returns for cutoff the element at rank
\* floor(N * (1 - percentileCutoff)) of the ascending bucket sizes, for max the
\* largest bucket size and for median the mean of the elements at ranks
\* floor(N / 2) and floor((N - 1) / 2); a percentileCutoff outside [0, 1]
\* fails, and an empty index returns zeros.
C16_FrequencyStats ==
    call.op = "ComputeFrequencyStats" =>
        FrequencyStatsAsStated(call.ret, call.given, call.percentileCutoff)

\* The same for every percentileCutoff but 0.
C16_FrequencyStatsAboveZero ==
    (call.op = "ComputeFrequencyStats" /\ call.percentileCutoff[1] # 0) =>
        FrequencyStatsAsStated(call.ret, call.given, call.percentileCutoff)

(***************************************************************************)
(* Properties of the mapper's sort and chaining.                           *)
(***************************************************************************)
SameTarget(a, b) == a.targetId = b.targetId /\ a.targetRev = b.targetRev

\* The hits of one (targetId, targetRev) lie next to each other in s.
GroupsContiguous(s) ==
    \A i, j \in 1..Len(s) :
        i < j /\ SameTarget(s[i], s[j]) => \A k \in i..j : SameTarget(s[i], s[k])

\* C2: after the sort of Map by the key of PackSeedHitWithDiagonalTo128_, the
\* hits of equal (targetId, targetRev) are contiguous and within each such run
\* the diagonal targetPos - queryPos never decreases, for diagonals of either
\* sign.
C2_SortedByTargetAndDiagonal ==
    call.op = "sort" =>
        /\ GroupsContiguous(hits)
        /\ \A i, j \in 1..Len(hits) :
               i < j /\ SameTarget(hits[i], hits[j])
                   => Diagonal(hits[i]) <= Diagonal(hits[j])

InBounds(ovl) ==
    /\ 0 <= ovl.Astart /\ ovl.Astart <= ovl.Aend /\ ovl.Aend <= ovl.Alen
    /\ 0 <= ovl.Bstart /\ ovl.Bstart <= ovl.Bend /\ ovl.Bend <= ovl.Blen

\* The order of the hits by (targetPos, queryPos).
PosLE(a, b) ==
    a.targetPos < b.targetPos \/ (a.targetPos = b.targetPos /\ a.queryPos <= b.queryPos)

\* The end points of every overlap FormDiagonalAnchors_ made are those of two
\* hits, the first not after and the second not before any hit of the group
\* in the order by (targetPos, queryPos).
EndsFromMinMaxHits ==
    \A c \in Range(call.made) :
        ~c.err =>
            \E lo, hi \in 1..Len(hits) :
                /\ c.ovl.Astart = hits[lo].queryPos /\ c.ovl.Bstart = hits[lo].targetPos
                /\ c.ovl.Aend = hits[hi].queryPos /\ c.ovl.Bend = hits[hi].targetPos
                /\ \A k \in (c.beginId + 1)..c.endId :
                       PosLE(hits[lo], hits[k]) /\ PosLE(hits[k], hits[hi])

\* C3 as claimed: for hits inside the query and the target and every
\* chainBandwidth, minNumSeeds and minChainSpan, every overlap emitted by
\* FormDiagonalAnchors_ has 0 <= Astart <= Aend <= Alen and
\* 0 <= Bstart <= Bend <= Blen, its end points being those of the group's
\* minimum and maximum hit.
C3_EmittedInBounds ==
    call.op = "FormDiagonalAnchors_" =>
        /\ EndsFromMinMaxHits
        /\ \A i \in 1..Len(call.overlaps) : InBounds(call.overlaps[i])

\* C3 as amended: the same for every minChainSpan >= -1.
C3_EmittedInBoundsFromMinusOne ==
    call.op = "FormDiagonalAnchors_" /\ call.minChainSpan >= -1 =>
        /\ EndsFromMinMaxHits
        /\ \A i \in 1..Len(call.overlaps) : InBounds(call.overlaps[i])

\* An overlap of two hits emitted under minChainSpan = 1 within a band of 2,
\* after another group was closed.
C3_Witness ==
    /\ call.op = "FormDiagonalAnchors_"
    /\ call.minChainSpan = 1
    /\ call.chainBandwidth = 2
    /\ Len(call.made) >= 2
    /\ \E i \in 1..Len(call.overlaps) : call.overlaps[i].NumSeeds = 2

\* The candidates FormDiagonalAnchors_ made, in the order it made them.
Candidates == [i \in 1..Len(call.made) |-> call.made[i].ovl]

\* The admission rule as claimed.
Admitted(ovl) ==
    /\ ovl.NumSeeds >= call.minNumSeeds
    /\ ASpan(ovl) > call.minChainSpan
    /\ BSpan(ovl) > call.minChainSpan
    /\ call.skipSelfHits => ovl.Bid # ovl.Aid
    /\ call.skipSymmetricOverlaps => ovl.Bid < ovl.Aid

\* The hit is of the target and strand of the hit first, within the band
\* around its diagonal.
InBandOf(hit, first, chainBandwidth) ==
    /\ hit.targetId = first.targetId
    /\ hit.targetRev = first.targetRev
    /\ Abs(Diagonal(hit) - Diagonal(first)) <= chainBandwidth

\* What C20 states of the group g handed to MakeOverlap_, of the sorted hits.
GroupIsBand(g, sortedHits, chainBandwidth) ==
    LET first == sortedHits[g.beginId + 1]
    IN  /\ \A i \in g.beginId..(g.endId - 1) : InBandOf(sortedHits[i + 1], first, chainBandwidth)
        /\ g.endId < Len(sortedHits) => ~InBandOf(sortedHits[g.endId + 1], first, chainBandwidth)
        /\ g.beginId <= g.minPosId /\ g.minPosId < g.endId
        /\ g.beginId <= g.maxPosId /\ g.maxPosId < g.endId
        /\ ~g.err
        /\ g.ovl.Bid = first.targetId
        /\ g.ovl.Brev = first.targetRev

\* C20: every group [beginId, endId) that FormDiagonalAnchors_ hands to
\* MakeOverlap_ holds hits of the targetId and targetRev of its first hit
\* alone, each on a diagonal within chainBandwidth of the first hit's; the hit
\* at endId, if any, is not such a hit; the indices of the minimum and the
\* maximum hit lie in [beginId, endId); MakeOverlap_ raises no error and the
\* overlap has the Bid and Brev of the hits.
C20_GroupsAreBands ==
    call.op = "FormDiagonalAnchors_" =>
        \A k \in 1..Len(call.made) : GroupIsBand(call.made[k], hits, call.chainBandwidth)

\* C20 for a chainBandwidth that is not negative.
C20_GroupsAreBandsOfWidth ==
    (call.op = "FormDiagonalAnchors_" /\ call.chainBandwidth >= 0) =>
        \A k \in 1..Len(call.made) : GroupIsBand(call.made[k], hits, call.chainBandwidth)

\* Three hits of one target in two groups: the first closed by the hit of the
\* other strand, or of a diagonal out of the band, the second flushed.
C20_Witness ==
    /\ call.op = "FormDiagonalAnchors_"
    /\ call.chainBandwidth >= 0
    /\ Len(hits) = 3
    /\ Len(call.made) = 2
    /\ call.made[1].endId = 2
    /\ hits[3].targetId = hits[1].targetId
    /\ call.made[1].minPosId # call.made[1].maxPosId

\* The ranges of the groups in made are not empty, each begins where the one
\* before it ended, the first at 0, and the last, alone flushed after the
\* sweep, ends at n: every index of 0..n-1 lies in one range and no more.
GroupsPartition(made, n) ==
    /\ Len(made) > 0
    /\ made[1].beginId = 0
    /\ made[Len(made)].endId = n
    /\ \A k \in 1..Len(made) : made[k].beginId < made[k].endId
    /\ \A k \in 1..(Len(made) - 1) : made[k + 1].beginId = made[k].endId
    /\ \A k \in 1..Len(made) : made[k].atFlush <=> k = Len(made)
    /\ \A j \in 0..(n - 1) :
           Cardinality({k \in 1..Len(made) : made[k].beginId <= j /\ j < made[k].endId}) = 1

\* The candidate of the group g counts the hits of its range.
CandidateCountsRange(g) ==
    /\ ~g.err
    /\ g.ovl.NumSeeds = g.endId - g.beginId
    /\ g.ovl.Score = g.endId - g.beginId
    /\ g.ovl.Identity[1] = 0
    /\ g.ovl.EditDistance = -1

\* What C23 states of the groups made and the overlaps emitted for n hits.
GroupsCoverHits(made, emitted, n) ==
    IF n = 0 THEN made = <<>> /\ emitted = <<>>
    ELSE /\ GroupsPartition(made, n)
         /\ \A k \in 1..Len(made) : CandidateCountsRange(made[k])
         /\ SumSeq([k \in 1..Len(made) |-> made[k].ovl.NumSeeds]) = n
         /\ SumSeq([k \in 1..Len(emitted) |-> emitted[k].NumSeeds]) <= n

\* C23: for every sorted hit list of n > 0 hits the ranges [beginId, endId)
\* FormDiagonalAnchors_ hands to MakeOverlap_ are non-empty, pairwise
\* disjoint, consecutive and cover 0..n-1, the last being flushed after the
\* sweep; each candidate has NumSeeds = Score = endId - beginId, Identity 0
\* and EditDistance -1; the NumSeeds of the candidates sum to n and those of
\* the overlaps emitted to n at most; no hit gives no overlap.
C23_GroupsCoverHits ==
    call.op = "FormDiagonalAnchors_" => GroupsCoverHits(call.made, call.overlaps, Len(hits))

\* C23 for a chainBandwidth that is not negative.
C23_GroupsCoverHitsOfWidth ==
    (call.op = "FormDiagonalAnchors_" /\ call.chainBandwidth >= 0) =>
        GroupsCoverHits(call.made, call.overlaps, Len(hits))

\* Three hits in two groups or more, of which one of two hits, and a
\* candidate that was not admitted beside one that was.
C23_Witness ==
    /\ call.op = "FormDiagonalAnchors_"
    /\ call.chainBandwidth >= 0
    /\ Len(hits) = 3
    /\ Len(call.made) >= 2
    /\ \E k \in 1..Len(call.made) : call.made[k].endId - call.made[k].beginId = 2
    /\ Len(call.overlaps) >= 1
    /\ Len(call.overlaps) < Len(call.made)

\* FormDiagonalAnchors_ has returned for no hit at all.
C23_WitnessNoHit ==
    /\ call.op = "FormDiagonalAnchors_"
    /\ call.chainBandwidth >= 0
    /\ Len(hits) = 0

\* Map has returned a list of overlaps.
MapReturned == map.pc = "done" /\ ~map.err

\* C9: FormDiagonalAnchors_ keeps a candidate overlap if and only if
\* NumSeeds >= minNumSeeds, ASpan > minChainSpan, BSpan > minChainSpan,
\* (skipSelfHits implies Bid # Aid) and (skipSymmetricOverlaps implies
\* Bid < Aid), for the groups closed inside the sweep and for the flushed group
\* alike; no overlap returned by Map has Bid = Aid, and with
\* SkipSymmetricOverlaps set every overlap returned by Map has Bid < Aid.
C9_AdmissionRule ==
    /\ (call.op = "FormDiagonalAnchors_" /\ ~call.err) =>
           call.overlaps = SelectSeq(Candidates, Admitted)
    /\ MapReturned =>
           \A i \in 1..Len(overlaps) :
               /\ overlaps[i].Bid # overlaps[i].Aid
               /\ map.settings_.SkipSymmetricOverlaps => overlaps[i].Bid < overlaps[i].Aid

\* A call with skipSelfHits that made three candidates: one of the query's own
\* sequence closed inside the sweep and dropped, one kept inside the sweep, and
\* a flushed one kept.
C9_Witness ==
    /\ call.op = "FormDiagonalAnchors_"
    /\ ~call.err
    /\ call.skipSelfHits
    /\ ~call.skipSymmetricOverlaps
    /\ Len(call.made) = 3
    /\ Len(call.overlaps) = 2
    /\ call.made[3].atFlush
    /\ call.overlaps[2] = call.made[3].ovl
    /\ \E i \in 1..2 : call.made[i].ovl.Bid = call.made[i].ovl.Aid

\* Map with SkipSymmetricOverlaps, on hits of the query's own sequence and of
\* the targets before and after it, returned an overlap.
C9_WitnessMap ==
    /\ MapReturned
    /\ map.settings_.SkipSymmetricOverlaps
    /\ {hits[i].targetId : i \in 1..Len(hits)} = {0, 1, 2}
    /\ Len(overlaps) > 0

\* The stage of Map a call to a collaborator belongs to: 1 the collection of
\* the hits, 2 their sort, 3 the chaining, 4 the tandem filter, 5 the
\* alignment (the fetch of a target and the runs of the primitive), 6 the
\* final filter.
StageOf(c) ==
    CASE c = "CollectHits" -> 1
      [] c = "sort" -> 2
      [] c = "FormDiagonalAnchors_" -> 3
      [] c = "FilterTandemOverlaps_" -> 4
      [] c \in {"GetSequence", "SES"} -> 5
      [] c = "FilterOverlaps_" -> 6

\* The stages that have run before a call of the stage n.
StagesBefore(n, oneHitPerTarget) ==
    {m \in 1..(n - 1) : m \in {1, 2, 3} \/ (m = 4 /\ oneHitPerTarget)}

\* The calls are those of the stages of Map in their order, as far as Map got.
StagesInOrder(calls, oneHitPerTarget) ==
    LET stage == [i \in 1..Len(calls) |-> StageOf(calls[i])]
    IN  /\ Len(calls) > 0
        /\ \A i \in 1..(Len(calls) - 1) : stage[i] <= stage[i + 1]
        /\ \A n \in {1, 2, 3, 4, 6} : Cardinality({i \in 1..Len(calls) : stage[i] = n}) <= 1
        /\ \A i \in 1..Len(calls) :
               /\ stage[i] = 4 => oneHitPerTarget
               /\ StagesBefore(stage[i], oneHitPerTarget) \subseteq Range(stage)

\* C17: for a query shorter than MinQueryLen Map returns the empty list and
\* calls neither CollectHits nor GetSequence nor the alignment primitive;
\* otherwise its stages run in the order collect, sort, chain, tandem filter
\* (only with OneHitPerTarget), align, final filter, each target fetched once
\* for each overlap that enters the alignment.
C17_MapStagesInOrder ==
    map.pc = "done" =>
        IF querySeq.len < map.settings_.MinQueryLen
        THEN ~map.err /\ map.calls = <<>> /\ overlaps = <<>>
        ELSE /\ StagesInOrder(map.calls, map.settings_.OneHitPerTarget)
             /\ ~map.err =>
                    /\ map.calls[Len(map.calls)] = "FilterOverlaps_"
                    /\ Occurrences(map.calls, "GetSequence") = Len(map.tandem)

\* A Map that ran all six stages and aligned an overlap.
C17_Witness ==
    /\ map.pc = "done"
    /\ ~map.err
    /\ querySeq.len >= map.settings_.MinQueryLen
    /\ map.settings_.OneHitPerTarget
    /\ Occurrences(map.calls, "SES") > 0
    /\ Len(overlaps) > 0

\* A Map that returned at once: the query is shorter than MinQueryLen.
C17_WitnessTooShort ==
    /\ map.pc = "done"
    /\ querySeq.len < map.settings_.MinQueryLen
    /\ map.querySeeds # <<>>

\* What Map returns for the call th when it runs alone on the index as built,
\* with the order the tandem filter sorted its ties in and the results the
\* primitive gave.
MapAlone(settings, freqCutoff, th) ==
    IF TooShort(settings, th.query) THEN [err |-> FALSE, overlaps |-> <<>>, possible |-> TRUE]
    ELSE CHOOSE out \in
             {IF c.err THEN [err |-> TRUE, overlaps |-> <<>>, possible |-> TRUE]
              ELSE CHOOSE o \in
                       {[err |-> f.err, overlaps |-> f.overlaps,
                         possible |-> /\ th.tandem \in TandemStage(settings, c.overlaps)
                                      /\ th.runs \in SESRunsOfAll(MapperTargets, th.tandem)] :
                           f \in {MapAlignAndFilter(settings, MapperTargets, th.tandem,
                                                    th.runs)}} : TRUE :
                 c \in {MapChain(settings, MapperCache, BuildHash_(MapSeeds).seeds,
                                 BuildHash_(MapSeeds).hash, th.query, th.querySeeds,
                                 freqCutoff)}} : TRUE

\* C19: once the index is built, no step of a call of Map changes the seed
\* array, the hash or the cache they share; and in every interleaving of two
\* calls of Map for two queries on the same index and target store, each
\* call returns the overlaps it returns when it runs alone.
C19_SharedReadOnly ==
    map.pc = "shared" =>
        /\ seeds_ = BuildHash_(MapSeeds).seeds
        /\ hash_ = BuildHash_(MapSeeds).hash
        /\ seedDBCache_ = MapperCache
        /\ targetSeqs = MapperTargets
        /\ \A t \in Threads :
               map.threads[t].pc = "done" =>
                   \E alone \in {MapAlone(map.settings_, map.freqCutoff, map.threads[t])} :
                       /\ alone.possible
                       /\ map.threads[t].err = alone.err
                       /\ map.threads[t].overlaps = alone.overlaps

\* Both calls have returned overlaps, each its own.
C19_Witness ==
    /\ map.pc = "shared"
    /\ \A t \in Threads : map.threads[t].pc = "done" /\ Len(map.threads[t].overlaps) > 0
    /\ map.threads[1].overlaps # map.threads[2].overlaps

\* The operations of the index and of the mapper leave the index as it is.
IndexIsReadOnly == [][call.op # "none" => UNCHANGED <<seeds_, hash_, seedDBCache_>>]_vars

(***************************************************************************)
(* Properties of the filters.                                              *)
(***************************************************************************)
\* The overlap passes the six tests of the final filter.
PassesAll(ovl, a) ==
    /\ ~RatLess(ovl.Identity, a.minIdentity)
    /\ ASpan(ovl) >= a.minMappedSpan
    /\ BSpan(ovl) >= a.minMappedSpan
    /\ ovl.NumSeeds >= a.minNumSeeds
    /\ ovl.Alen >= a.minQueryLen
    /\ ovl.Blen >= a.minTargetLen

\* C4: FilterOverlaps_ returns, in input order, exactly the overlaps of its
\* input with Identity >= minIdentity, ASpan >= minMappedSpan,
\* BSpan >= minMappedSpan, NumSeeds >= minNumSeeds, Alen >= minQueryLen and
\* Blen >= minTargetLen.
C4_FinalFilterExact ==
    call.op = "FilterOverlaps_" =>
        LET Passes(ovl) == PassesAll(ovl, call.args)
        IN  call.ret = SelectSeq(overlaps, Passes)

\* A call that keeps the first and the third of three overlaps and drops the
\* second.
C4_Witness ==
    /\ call.op = "FilterOverlaps_"
    /\ Len(overlaps) = 3
    /\ call.ret = <<overlaps[1], overlaps[3]>>
    /\ overlaps[1] # overlaps[3]

\* The longer of the two spans of an overlap.
Length(ovl) == Max(ASpan(ovl), BSpan(ovl))

\* C5: FilterTandemOverlaps_ returns exactly one overlap for each Bid of its
\* input and none of another Bid, and the one kept for a Bid has the greatest
\* max(ASpan, BSpan) among the input overlaps of that Bid; the empty input gives
\* the empty list.
C5_OnePerTargetLongest ==
    call.op = "FilterTandemOverlaps_" =>
        /\ {call.ret[i].Bid : i \in 1..Len(call.ret)} = {o.Bid : o \in Range(overlaps)}
        /\ \A i, j \in 1..Len(call.ret) : call.ret[i].Bid = call.ret[j].Bid => i = j
        /\ \A i \in 1..Len(call.ret) :
               /\ call.ret[i] \in Range(overlaps)
               /\ \A o \in Range(overlaps) :
                      o.Bid = call.ret[i].Bid => Length(o) <= Length(call.ret[i])
        /\ overlaps = <<>> => call.ret = <<>>

\* Three overlaps of two targets, the longest of target 0 not the first given.
C5_Witness ==
    /\ call.op = "FilterTandemOverlaps_"
    /\ Len(overlaps) = 3
    /\ Len(call.ret) = 2
    /\ overlaps[1].Bid = 0
    /\ call.ret[1] # overlaps[1]
    /\ Length(overlaps[1]) < Length(call.ret[1])

(***************************************************************************)
(* Properties of the alignment.                                            *)
(***************************************************************************)
\* The call of AlignOverlap_ returned an overlap.
Aligned == call.op = "AlignOverlap_" /\ ~call.ret.err

\* Score and EditDistance of the overlap returned.
ScoreAndEditDistance(ovl) ==
    /\ ovl.Score = -Length(ovl)
    /\ ovl.EditDistance = call.ses.fwd.diffs + call.ses.rev.diffs

\* a = b for two rationals of positive denominator.
RatEq(a, b) == a[1] * b[2] = b[1] * a[2]

\* C10 as stated: with span = max(ASpan, BSpan) of the returned coordinates,
\* Score = -span, EditDistance is the sum of the diffs of the two passes,
\* Identity = 100 * (span - EditDistance) / span when span > 0 and
\* Identity = -2.0 when span = 0.
C10_IdentityMinusTwo ==
    Aligned =>
        LET ovl == call.ret.ovl
            span == Length(ovl)
        IN  /\ ScoreAndEditDistance(ovl)
            /\ span > 0 => RatEq(ovl.Identity, <<100 * (span - ovl.EditDistance), span>>)
            /\ span = 0 => RatEq(ovl.Identity, <<-2, 1>>)

\* C10 amended: with span = max(ASpan, BSpan) of the returned coordinates,
\* Score = -span, EditDistance is the sum of the diffs of the two passes,
\* Identity = 100 * (span - EditDistance) / span when span > 0 and
\* Identity = -200.0 (100 times -2.0) when span = 0.
C10_IdentityMinusTwoHundred ==
    Aligned =>
        LET ovl == call.ret.ovl
            span == Length(ovl)
        IN  /\ ScoreAndEditDistance(ovl)
            /\ span > 0 => RatEq(ovl.Identity, <<100 * (span - ovl.EditDistance), span>>)
            /\ span = 0 => RatEq(ovl.Identity, <<-200, 1>>)

\* Both passes moved an end, the spans differ, both passes counted differences.
C10_Witness ==
    /\ Aligned
    /\ ASpan(call.ret.ovl) = 3
    /\ BSpan(call.ret.ovl) = 2
    /\ call.ses.fwd.diffs = 1
    /\ call.ses.rev.diffs = 1
    /\ call.ses.rev.lastQueryPos > 0
    /\ call.ret.ovl.Identity = <<100, 3>>

\* An alignment of span 0: neither pass moved an end.
C10_WitnessEmptySpan ==
    /\ Aligned
    /\ Length(call.ret.ovl) = 0
    /\ call.ret.ovl.EditDistance > 0

\* The overlap given to AlignOverlap_ has the length of its target for Blen.
GivenStoredLength ==
    /\ call.op = "AlignOverlap_"
    /\ overlaps[1].Blen = targetSeqs[overlaps[1].Bid].len

\* The coordinates C21 states for the overlap new aligned from given with the
\* results ses of the two passes.
ExtendedBy(new, given, ses) ==
    /\ new.Aend = given.Astart + ses.fwd.lastQueryPos
    /\ new.Bend = given.Bstart + ses.fwd.lastTargetPos
    /\ new.Astart = given.Astart - ses.rev.lastQueryPos
    /\ new.Bstart = given.Bstart - ses.rev.lastTargetPos
    /\ 0 <= new.Astart /\ new.Astart <= given.Astart
    /\ given.Astart <= new.Aend /\ new.Aend <= given.Alen
    /\ 0 <= new.Bstart /\ new.Bstart <= given.Bstart
    /\ given.Bstart <= new.Bend /\ new.Bend <= given.Blen

\* The fields the alignment leaves alone.
SameSequences(new, given) ==
    /\ new.Aid = given.Aid /\ new.Bid = given.Bid
    /\ new.Alen = given.Alen /\ new.Blen = given.Blen
    /\ new.Brev = given.Brev /\ new.NumSeeds = given.NumSeeds

\* C21: for an overlap with 0 <= Astart <= Alen, 0 <= Bstart <= Blen and Blen
\* the length of the target, on either strand, and any results of the
\* primitive within its strings, AlignOverlap_ raises no error and returns an
\* overlap with Aend = Astart + forward.lastQueryPos, Bend = Bstart +
\* forward.lastTargetPos, Astart' = Astart - reverse.lastQueryPos, Bstart' =
\* Bstart - reverse.lastTargetPos, 0 <= Astart' <= Astart <= Aend <= Alen and
\* 0 <= Bstart' <= Bstart <= Bend <= Blen; Aid, Bid, Alen, Blen, Brev and
\* NumSeeds are those given, and the overlap given is as it was.
C21_AlignedInBounds ==
    GivenStoredLength =>
        /\ ~call.ret.err
        /\ ExtendedBy(call.ret.ovl, overlaps[1], call.ses)
        /\ SameSequences(call.ret.ovl, overlaps[1])
        /\ overlaps[1] \in AlignInputs

\* An overlap on the reverse strand that both passes extended, the forward
\* pass to the end of the query.
C21_Witness ==
    /\ GivenStoredLength
    /\ overlaps[1].Brev
    /\ overlaps[1].Astart = 2
    /\ overlaps[1].Bstart = 1
    /\ call.ret.ovl.Aend = overlaps[1].Alen
    /\ call.ret.ovl.Astart = 0
    /\ call.ret.ovl.Bstart = 0
    /\ call.ret.ovl.Bend > overlaps[1].Bend

\* An overlap that starts at the end of both sequences: both strings of the
\* forward pass are empty.
C21_WitnessAtEnds ==
    /\ GivenStoredLength
    /\ overlaps[1].Astart = overlaps[1].Alen
    /\ overlaps[1].Bstart = overlaps[1].Blen

\* The last call is a call of FetchTargetSubsequence_.
Fetched == call.op = "FetchTargetSubsequence_"

\* C11: FetchTargetSubsequence_ fails for every (start, end) with start < 0,
\* end < 0, start > len, end > len or end < start, the pairs with start = end
\* outside 0..len included, and returns the empty string without an error for
\* start = end inside 0..len.
C11_FetchRangeChecked ==
    Fetched =>
        LET seqLen == targetSeqs[0].len
            outside == \/ call.seqStart < 0 \/ call.seqEnd < 0
                       \/ call.seqStart > seqLen \/ call.seqEnd > seqLen
                       \/ call.seqEnd < call.seqStart
        IN  /\ outside => call.ret.err
            /\ (~outside /\ call.seqStart = call.seqEnd) =>
                   (~call.ret.err /\ call.ret.size = 0)

(***************************************************************************)
(* Properties of the index cache.                                          *)
(***************************************************************************)
\* The two caches have the same version, seed parameters and tables.
SameTables(a, b) ==
    /\ a.version = b.version
    /\ a.seedParams = b.seedParams
    /\ a.fileLines = b.fileLines
    /\ a.seedLines = b.seedLines
    /\ a.blockLines = b.blockLines

\* The S records of a text, in their order.
SRecords(text) == SelectSeq(text, LAMBDA line : Len(line) > 0 /\ line[1] = "S")

\* The sequence id an S record carries, if any: the digits of its first field.
CarriedSeqId(line) ==
    LET b == SkipWhitespace(line, 2)
        e == DigitsEnd(line, b)
    IN  IF e > b THEN {DecimalValue(line, b, e)} ELSE {}

\* The first S record of the text that carries a sequence id other than its
\* ordinal (0 if there is none).
FirstMisnumbered(text) ==
    LET bad == {k \in 1..Len(SRecords(text)) :
                   CarriedSeqId(SRecords(text)[k]) \ {k - 1} # {}}
    IN  IF bad = {} THEN 0 ELSE CHOOSE k \in bad : \A j \in bad : k <= j

\* C12: the cache a successful load returns, with either loader, has
\* seedLines[i].seqId = i for every i; the load of a text whose k-th S record
\* carries a sequence id other than k fails.
C12_SeqIdIsOrdinal ==
    call.op = "load" =>
        /\ ~call.err =>
               \A i \in 1..Len(seedDBCache_.seedLines) : seedDBCache_.seedLines[i].seqId = i - 1
        /\ FirstMisnumbered(indexFile) # 0 => call.err

\* A load that the second S record stops: its sequence id is not 1, while
\* the first S record carries 0.
C12_Witness ==
    /\ call.op = "load"
    /\ call.round = 1
    /\ call.err
    /\ call.opened
    /\ FirstMisnumbered(indexFile) = 2
    /\ \E c \in CanonicalTexts : \E i \in SRecordsAt(c) : indexFile \in {WithSeqId(c, i, d) : d \in {"0", "2"}}

\* C13: the load of a text with no S record fails, whichever the entry
\* point: by file name, from a FILE* or from a stream.
C13_EmptyIndexFails ==
    (call.op = "load" /\ SRecords(indexFile) = <<>>) => call.err

\* From a stream, the load of a text with no S record fails.
C13_EmptyIndexFailsFromStream ==
    (call.op = "load" /\ call.loader = "stream" /\ SRecords(indexFile) = <<>>)
        => call.err

\* The fields of a line from position i on: its runs of atoms between
\* whitespace.
RECURSIVE FieldsFrom(_, _)
FieldsFrom(line, i) ==
    LET b == SkipWhitespace(line, i)
    IN  IF b > Len(line) THEN <<>>
        ELSE <<SubSeq(line, b, WordEnd(line, b) - 1)>> \o FieldsFrom(line, WordEnd(line, b))

\* The field is a decimal number, with or without a sign.
IsNumber(field) ==
    LET b == IF Len(field) > 0 /\ field[1] \in {"-", "+"} THEN 2 ELSE 1
    IN  b <= Len(field) /\ \A j \in b..Len(field) : IsDigit(field[j])

\* The fields an F, S or B record has, and those that are numbers.
Arity(token) == IF token = "S" THEN 7 ELSE 4

NumericFields(token) == IF token = "B" THEN 1..4 ELSE (1..Arity(token)) \ {2}

\* An F, S or B record with fewer fields than its arity, or with a numeric
\* field that is no number.
Malformed(line) ==
    /\ Len(line) > 0
    /\ line[1] \in {"F", "S", "B"}
    /\ LET fields == FieldsFrom(line, 2)
       IN  \/ Len(fields) < Arity(line[1])
           \/ \E j \in NumericFields(line[1]) : ~IsNumber(fields[j])

\* C14: the load of a text with an F, S or B record that has fewer fields
\* than its arity, or a numeric field that is no number, fails and returns no
\* cache, with either loader.
C14_MalformedRecordFails ==
    (call.op = "load" /\ \E i \in 1..Len(indexFile) : Malformed(indexFile[i])) => call.err

\* From a FILE*, and by file name, the load of such a text fails.
C14_MalformedRecordFailsFromFile ==
    (call.op = "load" /\ call.loader # "stream"
        /\ \E i \in 1..Len(indexFile) : Malformed(indexFile[i])) => call.err

\* A P record with whitespace after its token.
StatesParams(line) == Len(line) >= 2 /\ line[1] = "P" /\ line[2] \in Whitespace

\* The entries of a P record, each cut at its "=": those between the commas
\* of what follows the whitespace, the empty ones left out.
ParamEntries(line) ==
    LET pieces == Split(SubSeq(line, SkipWhitespace(line, 2), Len(line)), ",")
        kept == SelectSeq(pieces, LAMBDA piece : Len(piece) > 0)
    IN  [j \in 1..Len(kept) |-> Split(kept[j], "=")]

\* Every entry of the P record is a name=value, with a number for the value
\* of a known name.
AllNameValue(line) == \A j \in 1..Len(ParamEntries(line)) : Len(ParamEntries(line)[j]) = 2

NumbersForKnown(line) ==
    \A j \in 1..Len(ParamEntries(line)) :
        ParamEntries(line)[j][1] \in KnownParams => IsNumber(ParamEntries(line)[j][2])

\* The value the P record states for the name: that of its last entry of the
\* name, or the default.
StatedValue(line, name, default) ==
    LET at == {j \in 1..Len(ParamEntries(line)) : ParamEntries(line)[j][1] = name}
        last == CHOOSE j \in at : \A i \in at : i <= j
    IN  IF at = {} THEN default
        ELSE DecimalValue(ParamEntries(line)[last][2], 1, Len(ParamEntries(line)[last][2]) + 1)

StatedParams(line) ==
    [KmerSize |-> StatedValue(line, <<"k">>, DefaultSeedDBParameters.KmerSize),
     MinimizerWindow |-> StatedValue(line, <<"w">>, DefaultSeedDBParameters.MinimizerWindow),
     UseHPC |-> StatedValue(line, <<"hpc">>, DefaultSeedDBParameters.UseHPC),
     MaxHPCLen |-> StatedValue(line, <<"hpc_len">>, DefaultSeedDBParameters.MaxHPCLen),
     UseRC |-> StatedValue(line, <<"rc">>, DefaultSeedDBParameters.UseRC)]

\* The claim of C15 about the load of a text whose second line is the P
\* record and whose other lines are as written.
ParamsAsStated ==
    LET line == indexFile[2]
    IN  /\ ~AllNameValue(line) => call.err
        /\ (AllNameValue(line) /\ NumbersForKnown(line)) =>
               /\ ~call.err
               /\ seedDBCache_.seedParams = StatedParams(line)

ParamsLoaded ==
    /\ call.op = "load"
    /\ call.opened
    /\ \E c \in CanonicalTexts : Len(indexFile) = Len(c) /\ Tail(Tail(indexFile)) = Tail(Tail(c))
    /\ StatesParams(indexFile[2])

\* C15: after the load of "P", whitespace, "k=K,w=W,hpc=H,hpc_len=L,rc=R" the
\* seed parameters are K, W, H, L and R, with either loader; an entry with an
\* unknown name is ignored, and an entry that is no name=value fails the load.
C15_ParamsAsStated == ParamsLoaded => ParamsAsStated

\* From a stream, the seed parameters loaded are those the P record states.
C15_ParamsAsStatedFromStream == (ParamsLoaded /\ call.loader = "stream") => ParamsAsStated

\* The table an accessor reads.
TableOf(op, cache) ==
    IF op = "GetSeedsLine" THEN cache.seedLines
    ELSE IF op = "GetBlockLine" THEN cache.blockLines
    ELSE cache.fileLines

Accessed == call.op \in {"GetSeedsLine", "GetBlockLine", "GetFileLine"}

\* C18: GetSeedsLine, GetBlockLine and GetFileLine fail for an ordinal below 0
\* or not below the size of their table (any ordinal, for an empty table),
\* and for an ordinal inside the table return the entry stored there; the
\* cache is as it was before the call.
C18_AccessorsChecked ==
    Accessed =>
        LET table == TableOf(call.op, call.cache)
        IN  /\ seedDBCache_ = call.cache
            /\ (call.id < 0 \/ call.id >= Len(table)) => call.err
            /\ (0 <= call.id /\ call.id < Len(table)) =>
                   (~call.err /\ call.ret = <<table[call.id + 1]>>)

\* The first block of a cache that has one, and the second sequence.
C18_Witness ==
    /\ call.op = "GetBlockLine"
    /\ call.id = 0
    /\ ~call.err
    /\ Len(call.cache.seedLines) > 1

\* An ordinal asked of an empty table.
C18_WitnessEmptyTable ==
    /\ call.op = "GetFileLine"
    /\ call.id = 0
    /\ call.cache.fileLines = <<>>

\* The load from a stream of the text a load from a FILE* has read gives the
\* same: an error, or the same version, seed parameters and tables.
StreamLoadAgrees ==
    \A token \in Tokens :
        \E other \in {LoadSeedDBIndexCacheStream(indexFile, <<"db", ".", "seeddb">>, token)} :
            /\ call.err = other.err
            /\ ~call.err => SameTables(seedDBCache_, other.cache)

\* C22: for every index text the loader from a FILE* and the loader from a
\* stream agree: both fail, or both return caches with the same version, seed
\* parameters, file lines, seeds lines and block lines.
C22_LoadersAgree ==
    (call.op = "load" /\ call.loader = "FILE") => StreamLoadAgrees

\* The two loaders agree on the texts operator<< writes for a cache with the
\* default KmerSize.
C22_LoadersAgreeOnDefaults ==
    (call.op = "load" /\ call.loader = "FILE"
        /\ indexFile \in {EmitCache(c) : c \in {w \in WrittenCaches :
                                   w.seedParams.KmerSize = DefaultKmerSize}})
        => StreamLoadAgrees

\* The text written from a loaded cache has been loaded again.
LoadedAgain == call.op = "load" /\ call.round = 2

\* C6: for every cache a successful load returned, the text operator<< writes
\* from it loads to a cache with the same version, seed parameters and file,
\* seeds and block tables, and that second cache is written as the same text;
\* a text in the form operator<< writes is written back unchanged after a load.
C6_EmitLoadRoundTrip ==
    /\ LoadedAgain =>
           /\ ~call.err
           /\ SameTables(seedDBCache_, call.first)
           /\ EmitCache(seedDBCache_) = indexFile
    /\ (call.op = "emit" /\ call.text \in CanonicalTexts) => indexFile = call.text

\* With the loader from a stream on both sides, the round trip holds for the
\* texts in the form operator<< writes.
StreamRoundTripOfCanonical ==
    (call.op \in {"load", "emit"} /\ call.loaders \in {<<"stream">>, <<"stream", "stream">>}
        /\ call.text \in CanonicalTexts)
        => C6_EmitLoadRoundTrip

(***************************************************************************)
(* Properties of the writer of the sequence database.                      *)
(***************************************************************************)
\* The sequence lines of the file fileId, in the order they were added.
LinesOfFile(w, fileId) == SelectSeq(w.seqLines_, LAMBDA sl : sl.fileId = fileId)

\* The sizes in bytes of the sequence lines.
NumBytesOfLines(lines) == [i \in 1..Len(lines) |-> lines[i].numBytes]

\* The bytes of the sequence lines, one sequence after the other.
RECURSIVE BytesOfLines(_)
BytesOfLines(lines) ==
    IF Len(lines) = 0 THEN <<>>
    ELSE BytesOf(lines[1].seqId, lines[1].numBytes) \o BytesOfLines(Tail(lines))

\* The sequence lines are numbered from 0, each is of a file opened, and
\* starts in it where the sequences added to that file before it end.
SeqLinesAsAdded(w) ==
    \A i \in 1..Len(w.seqLines_) :
        /\ w.seqLines_[i].seqId = i - 1
        /\ w.seqLines_[i].fileId \in 0..(Len(w.fileLines_) - 1)
        /\ w.seqLines_[i].fileOffset =
               SumSeq(NumBytesOfLines(LinesOfFile([w EXCEPT !.seqLines_ = SubSeq(@, 1, i - 1)],
                                                  w.seqLines_[i].fileId)))

\* Every file line counts the sequences of its file and their bytes, and no
\* file but the first is without a sequence.
FileLinesCount(w) ==
    \A f \in 1..Len(w.fileLines_) :
        /\ w.fileLines_[f].fileId = f - 1
        /\ w.fileLines_[f].numSequences = Len(LinesOfFile(w, f - 1))
        /\ w.fileLines_[f].numBytes = SumSeq(NumBytesOfLines(LinesOfFile(w, f - 1)))
        /\ f > 1 => w.fileLines_[f].numSequences > 0

\* The global counts are those of all the sequences.
TotalsCount(w) ==
    /\ w.totalOutSeqs_ = Len(w.seqLines_)
    /\ w.totalOutBytes_ = SumSeq(NumBytesOfLines(w.seqLines_))

\* Every file holds the bytes of its sequences and no other, each sequence
\* at its fileOffset; the last file opened holds them with the buffer.
FilesHoldSequences(w) ==
    \A f \in 1..Len(w.files) :
        (w.files[f] \o (IF f = Len(w.files) THEN w.seqBuffer_ ELSE <<>>))
            = BytesOfLines(LinesOfFile(w, f - 1))

\* The step has opened a file from a writer that had one.
OpensFile == writer.pc = "open" /\ Len(writer'.fileLines_) # Len(writer.fileLines_)

\* The step is an AddSequence that found the last file at the boundary,
\* flushed the buffer to it, opened one file and added its sequence to it.
OpensAtBoundary ==
    LET back == writer.fileLines_[Len(writer.fileLines_)]
        added == writer'.seqLines_[Len(writer'.seqLines_)]
    IN  /\ call'.op = "AddSequence"
        /\ back.numBytes > 0
        /\ back.numBytes >= writer.fileBlockSize_
        /\ Len(writer'.fileLines_) = Len(writer.fileLines_) + 1
        /\ writer'.files[Len(writer.files)] = writer.files[Len(writer.files)] \o writer.seqBuffer_
        /\ Len(writer'.seqLines_) = Len(writer.seqLines_) + 1
        /\ added.fileId = Len(writer.fileLines_)
        /\ added.fileOffset = 0

\* The step is an AddSequence that has added a sequence: its line is of the
\* last file opened.
AddsToLastFile ==
    (call'.op = "AddSequence" /\ writer.pc = "open"
        /\ Len(writer'.seqLines_) # Len(writer.seqLines_))
        => writer'.seqLines_[Len(writer'.seqLines_)].fileId = Len(writer'.fileLines_) - 1

\* What C24 states of a writer.
WriterCounts ==
    writer.pc = "open" =>
        /\ SeqLinesAsAdded(writer)
        /\ FileLinesCount(writer)
        /\ TotalsCount(writer)
        /\ FilesHoldSequences(writer)

\* C24: after any calls of AddSequence, with any flushSize and
\* fileBlockSize, the i-th sequence added has seqId i, the fileId of the last
\* file opened and the fileOffset that is the sum of the numBytes of the
\* sequences added to that file before it; every file line has the count and
\* the byte sum of the sequences of its fileId, and the totals those of all
\* sequences; a file is opened at the start of an AddSequence alone, when the
\* last file has numBytes > 0 and numBytes >= fileBlockSize, after the buffer
\* was flushed to that file; no file but the first is without a sequence.
C24_WriterBookkeeping ==
    /\ []WriterCounts
    /\ [][(OpensFile => OpensAtBoundary) /\ AddsToLastFile]_vars

\* Three sequences in two files, the second file with two sequences of
\* which the later does not start at 0, and bytes in the first file and in
\* the buffer.
C24_Witness ==
    /\ writer.pc = "open"
    /\ call.op = "AddSequence"
    /\ Len(writer.fileLines_) = 2
    /\ Len(writer.seqLines_) = 3
    /\ writer.seqLines_[3].fileId = 1
    /\ writer.seqLines_[3].fileOffset > 0
    /\ Len(writer.files[1]) > 0
    /\ Len(writer.seqBuffer_) > 0

====
